---- MODULE Spec2Model ----
(***************************************************************************)
(* Model of the locale-aware colour naming engine of                       *)
(* internationalized-color: the 3-d k-d tree (src/src/kdtree.ts) and the   *)
(* dictionary registry, index cache and naming queries                     *)
(* (src/src/naming.ts).                                                    *)
(*                                                                         *)
(* Numbers.  Coordinates are small integers (all of them exactly           *)
(* representable in a Float32Array).  Squared distances are therefore      *)
(* exact integers.  Math.sqrt is modelled in fixed point: a distance is    *)
(* the integer floor(sqrt(d) * DistScale), so 1.0 is DistScale.            *)
(* Array indices are 0-based as in the source; a TLA+ sequence s holds     *)
(* the element of source index i at s[i + 1].                              *)
(***************************************************************************)
EXTENDS Integers, Sequences, FiniteSets, TLC

VARIABLES
    dictionaries,   \* naming.ts `dictionaries`: locale -> ColorDictionary
    trees,          \* naming.ts `trees`: cache key -> KDTree
    points,         \* KDTree constructor argument `points` (flat array)
    count,          \* KDTree constructor argument `count`
    root,           \* KDTree `#root`
    call,           \* the call a run issues (drawn in Init of SpecKD / SpecName)
    out,            \* the last call that returned, with its arguments and result
    held            \* the ColorDictionary objects callers hold and pass in

vars == <<dictionaries, trees, points, count, root, call, out, held>>

(***************************************************************************)
(* Bounds and numeric encodings                                            *)
(***************************************************************************)
MaxPoints == 4          \* largest point set handed to the KDTree constructor
MaxN == 3               \* largest `n` handed to nearestN
MaxRegistrations == 3   \* useLocale calls before the call of SpecName
DistScale == 1000       \* fixed-point units per 1.0 of distance
Infinity == 2000000000  \* JavaScript Infinity (above every squared distance)

(***************************************************************************)
(* kdtree.ts                                                               *)
(***************************************************************************)

\* `null` for KDNode | null.  A node is a record with isNull = FALSE.
Null == [isNull |-> TRUE]

\* Math.sqrt, in fixed point: floor(sqrt(d) * DistScale); sqrt(Infinity) = Infinity.
RECURSIVE NewtonSqrt(_, _)
NewtonSqrt(n, x) ==
    LET y == (x + (n \div x)) \div 2
    IN  IF y >= x THEN x ELSE NewtonSqrt(n, y)

MathSqrt(d) ==
    IF d = Infinity THEN Infinity
    ELSE IF d = 0 THEN 0
    ELSE NewtonSqrt(d * DistScale * DistScale, d * DistScale * DistScale)

\* function sqDist(a, b)
sqDist(a, b) ==
    LET dl == a[1] - b[1]
        da == a[2] - b[2]
        db == a[3] - b[3]
    IN  dl * dl + da * da + db * db

\* items.sort((a, b) => a.point[axis] - b.point[axis]): Array.prototype.sort
\* is stable, so items with equal keys keep their relative order.
RECURSIVE insertItem(_, _, _)
insertItem(sorted, item, axis) ==
    IF Len(sorted) = 0 THEN <<item>>
    ELSE IF sorted[Len(sorted)].point[axis + 1] <= item.point[axis + 1]
         THEN Append(sorted, item)
         ELSE Append(insertItem(SubSeq(sorted, 1, Len(sorted) - 1), item, axis),
                     sorted[Len(sorted)])

RECURSIVE sortItems(_, _)
sortItems(items, axis) ==
    IF Len(items) = 0 THEN <<>>
    ELSE insertItem(sortItems(SubSeq(items, 1, Len(items) - 1), axis),
                    items[Len(items)], axis)

\* Faulty variant of #build: the node is the lower median, (length - 1) >> 1.
RECURSIVE buildLowerMedian(_, _)
buildLowerMedian(items, depth) ==
    IF Len(items) = 0 THEN Null
    ELSE LET axis == depth % 3
             sorted == sortItems(items, axis)
             mid == (Len(sorted) - 1) \div 2
         IN  [isNull |-> FALSE,
              point |-> sorted[mid + 1].point,
              index |-> sorted[mid + 1].index,
              axis |-> axis,
              left |-> buildLowerMedian(SubSeq(sorted, 1, mid), depth + 1),
              right |-> buildLowerMedian(SubSeq(sorted, mid + 2, Len(sorted)), depth + 1)]

\* KDTree.#build(items, depth)
RECURSIVE build(_, _)
build(items, depth) ==
    IF Len(items) = 0 THEN Null
    ELSE LET axis == depth % 3
             sorted == sortItems(items, axis)
             mid == Len(sorted) \div 2
         IN  [isNull |-> FALSE,
              point |-> sorted[mid + 1].point,
              index |-> sorted[mid + 1].index,
              axis |-> axis,
              left |-> build(SubSeq(sorted, 1, mid), depth + 1),
              right |-> build(SubSeq(sorted, mid + 2, Len(sorted)), depth + 1)]

\* new KDTree(points, count): the value of #root
KDTree(pts, cnt) ==
    LET items == [i \in 1..cnt |->
                    [point |-> <<pts[(i - 1) * 3 + 1], pts[(i - 1) * 3 + 2], pts[(i - 1) * 3 + 3]>>,
                     index |-> i - 1]]
    IN  build(items, 0)

\* Faulty variant of nearestSearch: the far branch is never searched.
RECURSIVE nearestSearchNoFar(_, _, _)
nearestSearchNoFar(node, query, best) ==
    IF node.isNull THEN best
    ELSE LET dist == sqDist(query, node.point)
             b1 == IF dist < best.dist THEN [dist |-> dist, index |-> node.index] ELSE best
             diff == query[node.axis + 1] - node.point[node.axis + 1]
             near == IF diff <= 0 THEN node.left ELSE node.right
         IN  nearestSearchNoFar(near, query, b1)

\* Faulty variant of nearestSearch: the far branch is pruned on the plane
\* distance itself instead of its square.
RECURSIVE nearestSearchUnsquared(_, _, _)
nearestSearchUnsquared(node, query, best) ==
    IF node.isNull THEN best
    ELSE LET dist == sqDist(query, node.point)
             b1 == IF dist < best.dist THEN [dist |-> dist, index |-> node.index] ELSE best
             diff == query[node.axis + 1] - node.point[node.axis + 1]
             near == IF diff <= 0 THEN node.left ELSE node.right
             far == IF diff <= 0 THEN node.right ELSE node.left
             b2 == nearestSearchUnsquared(near, query, b1)
             absDiff == IF diff < 0 THEN -diff ELSE diff
         IN  IF absDiff * absDiff * absDiff < b2.dist
             THEN nearestSearchUnsquared(far, query, b2) ELSE b2

\* the closure `search` of KDTree.nearest; best = [dist, index] is the pair
\* (bestDist, bestIndex) it updates.
RECURSIVE nearestSearch(_, _, _)
nearestSearch(node, query, best) ==
    IF node.isNull THEN best
    ELSE LET dist == sqDist(query, node.point)
             b1 == IF dist < best.dist THEN [dist |-> dist, index |-> node.index] ELSE best
             axis == node.axis
             diff == query[axis + 1] - node.point[axis + 1]
             near == IF diff <= 0 THEN node.left ELSE node.right
             far == IF diff <= 0 THEN node.right ELSE node.left
             b2 == nearestSearch(near, query, b1)
         IN  IF diff * diff < b2.dist THEN nearestSearch(far, query, b2) ELSE b2

\* Faulty variant of nearest: bestIndex starts at 0 instead of -1.
nearestInitZero(tree, query) ==
    LET best == nearestSearch(tree, query, [dist |-> Infinity, index |-> 0])
    IN  [index |-> best.index, distance |-> MathSqrt(best.dist)]

\* KDTree.nearest(query)
nearest(tree, query) ==
    LET best == nearestSearch(tree, query, [dist |-> Infinity, index |-> -1])
    IN  [index |-> best.index, distance |-> MathSqrt(best.dist)]

\* [heap[i], heap[j]] = [heap[j], heap[i]]  (i, j are 0-based)
swap(heap, i, j) ==
    [heap EXCEPT ![i + 1] = heap[j + 1], ![j + 1] = heap[i + 1]]

\* function heapUp(heap, i)
RECURSIVE heapUp(_, _)
heapUp(heap, i) ==
    IF i > 0
    THEN LET parent == (i - 1) \div 2
         IN  IF heap[i + 1].dist > heap[parent + 1].dist
             THEN heapUp(swap(heap, i, parent), parent)
             ELSE heap
    ELSE heap

\* function heapDown(heap, i, size)
RECURSIVE heapDown(_, _, _)
heapDown(heap, i, size) ==
    LET left == 2 * i + 1
        right == 2 * i + 2
        l1 == IF left < size /\ heap[left + 1].dist > heap[i + 1].dist THEN left ELSE i
        largest == IF right < size /\ heap[right + 1].dist > heap[l1 + 1].dist THEN right ELSE l1
    IN  IF largest # i
        THEN heapDown(swap(heap, i, largest), largest, size)
        ELSE heap

\* Faulty variant of nearestNSearch: a full heap never replaces its worst entry.
RECURSIVE nearestNSearchNoReplace(_, _, _, _)
nearestNSearchNoReplace(node, query, n, heap) ==
    IF node.isNull THEN heap
    ELSE LET dist == sqDist(query, node.point)
             h1 == IF Len(heap) < n
                   THEN heapUp(Append(heap, [index |-> node.index, dist |-> dist]), Len(heap))
                   ELSE heap
             diff == query[node.axis + 1] - node.point[node.axis + 1]
             near == IF diff <= 0 THEN node.left ELSE node.right
             far == IF diff <= 0 THEN node.right ELSE node.left
             h2 == nearestNSearchNoReplace(near, query, n, h1)
             maxDist == IF Len(h2) < n THEN Infinity ELSE h2[1].dist
         IN  IF diff * diff < maxDist THEN nearestNSearchNoReplace(far, query, n, h2) ELSE h2

\* Faulty variant of nearestNSearch: the far branch is pruned against the
\* heap's worst entry even while the heap is not yet full.
RECURSIVE nearestNSearchEarlyPrune(_, _, _, _)
nearestNSearchEarlyPrune(node, query, n, heap) ==
    IF node.isNull THEN heap
    ELSE LET dist == sqDist(query, node.point)
             h1 == IF Len(heap) < n
                   THEN heapUp(Append(heap, [index |-> node.index, dist |-> dist]), Len(heap))
                   ELSE IF dist < heap[1].dist
                        THEN heapDown([heap EXCEPT ![1] = [index |-> node.index, dist |-> dist]],
                                      0, Len(heap))
                        ELSE heap
             diff == query[node.axis + 1] - node.point[node.axis + 1]
             near == IF diff <= 0 THEN node.left ELSE node.right
             far == IF diff <= 0 THEN node.right ELSE node.left
             h2 == nearestNSearchEarlyPrune(near, query, n, h1)
             maxDist == h2[1].dist
         IN  IF diff * diff < maxDist THEN nearestNSearchEarlyPrune(far, query, n, h2) ELSE h2

\* Faulty variant of nearestNSearch: the far branch is pruned against the
\* last entry of the heap array instead of heap[0], the worst one.
RECURSIVE nearestNSearchPruneOnLast(_, _, _, _)
nearestNSearchPruneOnLast(node, query, n, heap) ==
    IF node.isNull THEN heap
    ELSE LET dist == sqDist(query, node.point)
             h1 == IF Len(heap) < n
                   THEN heapUp(Append(heap, [index |-> node.index, dist |-> dist]), Len(heap))
                   ELSE IF dist < heap[1].dist
                        THEN heapDown([heap EXCEPT ![1] = [index |-> node.index, dist |-> dist]],
                                      0, Len(heap))
                        ELSE heap
             diff == query[node.axis + 1] - node.point[node.axis + 1]
             near == IF diff <= 0 THEN node.left ELSE node.right
             far == IF diff <= 0 THEN node.right ELSE node.left
             h2 == nearestNSearchPruneOnLast(near, query, n, h1)
             maxDist == IF Len(h2) < n THEN Infinity ELSE h2[Len(h2)].dist
         IN  IF diff * diff < maxDist THEN nearestNSearchPruneOnLast(far, query, n, h2) ELSE h2

\* the closure `search` of KDTree.nearestN; heap is the max-heap it updates.
\* Only reached with n >= 1 (see nearestN).
RECURSIVE nearestNSearch(_, _, _, _)
nearestNSearch(node, query, n, heap) ==
    IF node.isNull THEN heap
    ELSE LET dist == sqDist(query, node.point)
             h1 == IF Len(heap) < n
                   THEN heapUp(Append(heap, [index |-> node.index, dist |-> dist]), Len(heap))
                   ELSE IF dist < heap[1].dist
                        THEN heapDown([heap EXCEPT ![1] = [index |-> node.index, dist |-> dist]],
                                      0, Len(heap))
                        ELSE heap
             axis == node.axis
             diff == query[axis + 1] - node.point[axis + 1]
             near == IF diff <= 0 THEN node.left ELSE node.right
             far == IF diff <= 0 THEN node.right ELSE node.left
             h2 == nearestNSearch(near, query, n, h1)
             maxDist == IF Len(h2) < n THEN Infinity ELSE h2[1].dist
         IN  IF diff * diff < maxDist THEN nearestNSearch(far, query, n, h2) ELSE h2

\* results.sort((a, b) => a.distance - b.distance), stable
RECURSIVE insertResult(_, _)
insertResult(sorted, r) ==
    IF Len(sorted) = 0 THEN <<r>>
    ELSE IF sorted[Len(sorted)].distance <= r.distance
         THEN Append(sorted, r)
         ELSE Append(insertResult(SubSeq(sorted, 1, Len(sorted) - 1), r), sorted[Len(sorted)])

RECURSIVE sortResults(_)
sortResults(rs) ==
    IF Len(rs) = 0 THEN <<>>
    ELSE insertResult(sortResults(SubSeq(rs, 1, Len(rs) - 1)), rs[Len(rs)])

\* The value a call that throws leaves in `out.result`.
TypeError == <<[index |-> -2, distance |-> -2]>>

\* Faulty variant of nearestN: a count of zero or less returns no results.
nearestNGuardsCount(tree, query, n) ==
    IF n <= 0 THEN <<>>
    ELSE LET heap == nearestNSearch(tree, query, n, <<>>)
             results == [i \in 1..Len(heap) |->
                           [index |-> heap[i].index, distance |-> MathSqrt(heap[i].dist)]]
         IN  sortResults(results)

\* KDTree.nearestN(query, n).  With n <= 0 and a non-empty tree the first
\* visited node finds heap.length < n false and reads heap[0].dist of an
\* empty heap, which throws a TypeError.
nearestN(tree, query, n) ==
    IF n <= 0 /\ ~tree.isNull THEN TypeError
    ELSE LET heap == nearestNSearch(tree, query, n, <<>>)
             results == [i \in 1..Len(heap) |->
                           [index |-> heap[i].index, distance |-> MathSqrt(heap[i].dist)]]
         IN  sortResults(results)

(***************************************************************************)
(* naming.ts                                                               *)
(*                                                                         *)
(* A JavaScript object with optional properties is a record that has the   *)
(* field only when the property is present: a ColorDictionary is           *)
(* [locale, source] plus any of basic, extended, traditional; a            *)
(* ColorNameSet is [names, colors]; NamingOptions is a record with any of  *)
(* level, threshold.  `string | ColorDictionary` is the tagged value       *)
(* [kind |-> "string", id |-> s] or [kind |-> "dict", dict |-> d].         *)
(*                                                                         *)
(* `dictionaries` is a plain object literal, so dictionaries[key] also     *)
(* finds the members every object inherits from Object.prototype.  The     *)
(* variable dictionaries holds what dictionaries[key] evaluates to for     *)
(* every key where that is not undefined: the dictionaries stored by       *)
(* useLocale and the inherited members, each a record with the field       *)
(* `inherited` and no locale, source or tier until one is assigned to it.  *)
(***************************************************************************)

\* const LEVELS: Level[] = ['basic', 'extended', 'traditional']
LEVELS == <<"basic", "extended", "traditional">>

\* The value `undefined`.
undefined == [undefined |-> TRUE]
IsUndefined(x) == "undefined" \in DOMAIN x

\* The outcome of a naming call that throws a TypeError.
Thrown == [isNull |-> FALSE, thrown |-> TRUE]
IsThrown(x) == "thrown" \in DOMAIN x

\* Keys that `{}` inherits from Object.prototype ('constructor' is the
\* function Object, 'toString' the function Object.prototype.toString).
InheritedKeys == { "constructor", "toString" }

\* The value dictionaries[key] of an inherited key: a function object.
InheritedMember(key) == [inherited |-> key]

\* x is a dictionary stored by useLocale (an own property of dictionaries).
IsStored(x) == "inherited" \notin DOMAIN x

\* `new Map()` / `{}` and the values of call and out before any call.
NoTrees == [k \in {} |-> Null]
NoDictionaries == [l \in InheritedKeys |-> InheritedMember(l)]
NoOptions == [k \in {} |-> Null]
NoCall == [op |-> "none"]
NoOut == [op |-> "none"]
NoHeld == [d \in {} |-> Null]

\* obj[key] = value on an object or Map (adds the key when it is absent).
SetKey(obj, key, value) ==
    [k \in DOMAIN obj \cup {key} |-> IF k = key THEN value ELSE obj[k]]

\* obj[key], undefined when the key is absent.
GetKey(obj, key) == IF key \in DOMAIN obj THEN obj[key] ELSE undefined

\* map.delete(key)
DeleteKey(map, key) == [k \in DOMAIN map \ {key} |-> map[k]]

\* `${dict.locale}`: "undefined" when dict has no locale property
localeString(dict) == IF "locale" \in DOMAIN dict THEN dict.locale ELSE "undefined"

\* `${locale}:${level}`
cacheKey(locale, level) == locale \o ":" \o level

\* Faulty variant of mergeTier: an incoming tier replaces a stored one.
mergeTierOverwrite(existing, dict, level) ==
    IF level \in DOMAIN dict
    THEN SetKey(existing, level, dict[level])
    ELSE existing

\* Faulty variant of mergeTier: a stored tier with zero names counts as absent.
mergeTierReplacesEmpty(existing, dict, level) ==
    IF level \in DOMAIN dict
       /\ (level \notin DOMAIN existing \/ Len(existing[level].names) = 0)
    THEN SetKey(existing, level, dict[level])
    ELSE existing

\* if (dict[level] && !existing[level]) existing[level] = dict[level]
mergeTier(existing, dict, level) ==
    IF level \in DOMAIN dict /\ level \notin DOMAIN existing
    THEN SetKey(existing, level, dict[level])
    ELSE existing

\* Faulty variant of invalidate: only the first level's key is deleted.
invalidateFirstOnly(cache, locale) == DeleteKey(cache, cacheKey(locale, LEVELS[1]))

\* for (const level of LEVELS) trees.delete(`${dict.locale}:${level}`)
invalidate(cache, locale) ==
    DeleteKey(DeleteKey(DeleteKey(cache, cacheKey(locale, LEVELS[1])),
                        cacheKey(locale, LEVELS[2])),
              cacheKey(locale, LEVELS[3]))

\* Faulty variant of useLocaleDictionaries: a merge also takes the source of
\* the incoming dictionary.
useLocaleDictionariesLastSource(dicts, dict) ==
    IF dict.locale \in DOMAIN dicts
    THEN LET existing == dicts[dict.locale]
             merged == mergeTier(mergeTier(mergeTier(existing, dict, "basic"),
                                           dict, "extended"),
                                 dict, "traditional")
         IN  [dicts EXCEPT ![dict.locale] = SetKey(merged, "source", dict.source)]
    ELSE SetKey(dicts, dict.locale, dict)

\* The dictionaries a registration leaves: the three merges of useLocale on
\* an existing locale, or the copy { ...dict } stored for a new one.
useLocaleDictionaries(dicts, dict) ==
    IF dict.locale \in DOMAIN dicts
    THEN LET existing == dicts[dict.locale]
             merged == mergeTier(mergeTier(mergeTier(existing, dict, "basic"),
                                           dict, "extended"),
                                 dict, "traditional")
         IN  [dicts EXCEPT ![dict.locale] = merged]
    ELSE SetKey(dicts, dict.locale, dict)

\* The cache a registration leaves.
useLocaleTrees(dicts, cache, dict) ==
    IF dict.locale \in DOMAIN dicts
    THEN invalidate(cache, dict.locale)
    ELSE cache

\* Faulty variant of useLocaleHeld: the registry keeps the argument itself
\* instead of the copy { ...dict }, so the merges of a later call are
\* written to the object the caller still holds.
useLocaleHeldShared(objs, dicts, dict) ==
    IF objs[dict].locale \in DOMAIN dicts
    THEN [o \in DOMAIN objs |->
            IF objs[o] = dicts[objs[dict].locale]
            THEN useLocaleDictionaries(dicts, objs[dict])[objs[dict].locale]
            ELSE objs[o]]
    ELSE objs

\* The objects callers hold as useLocale(objs[dict]) leaves them: the call
\* assigns only to properties of `existing`, which is an object created by
\* { ...dict } in an earlier call (or an inherited member), and to
\* dictionaries[dict.locale]; no object of a caller is written.
useLocaleHeld(objs, dicts, dict) == objs

\* function resolveDict(locale)
resolveDict(locale) ==
    IF locale.kind = "string" THEN GetKey(dictionaries, locale.id) ELSE locale.dict

\* Faulty variant of resolveTreeCache: inline dictionaries use the shared cache too.
resolveTreeCacheAlways(locale) == [isUndefined |-> FALSE, map |-> trees, built |-> <<>>]

\* function resolveTreeCache(locale): the shared Map, or undefined.  The
\* field built lists the keys for which the call has run `new KDTree` so
\* far (bookkeeping of the model; the code keeps no such list).
resolveTreeCache(locale) ==
    IF locale.kind = "string"
    THEN [isUndefined |-> FALSE, map |-> trees, built |-> <<>>]
    ELSE [isUndefined |-> TRUE, map |-> NoTrees, built |-> <<>>]

\* color.get(channel) ?? 0
getOrZero(color, channel) == IF channel \in DOMAIN color THEN color[channel] ELSE 0

\* function toOklabQuery(color), for a Color that is already in OkLab
toOklabQuery(color) ==
    <<getOrZero(color, "l"), getOrZero(color, "a"), getOrZero(color, "b")>>

\* Faulty variant of getLevels: the requested level is ignored.
getLevelsAll(options) == LEVELS

\* function getLevels(options?.level)
getLevels(options) ==
    IF "level" \notin DOMAIN options THEN LEVELS
    ELSE LET idx == CHOOSE i \in 0..2 : LEVELS[i + 1] = options.level
         IN  SubSeq(LEVELS, 1, idx + 1)

\* Faulty variant of getTree: the cache key leaves out the level.
getTreeKeyWithoutLevel(dict, level, cache) ==
    LET key == localeString(dict)
        cached == IF cache.isUndefined THEN undefined ELSE GetKey(cache.map, key)
        nameSet == GetKey(dict, level)
    IN  IF ~IsUndefined(cached) THEN [tree |-> cached, cache |-> cache]
        ELSE IF IsUndefined(nameSet) \/ Len(nameSet.names) = 0
             THEN [tree |-> Null, cache |-> cache]
             ELSE LET tree == KDTree(nameSet.colors, Len(nameSet.names))
                  IN  [tree |-> tree,
                       cache |-> IF cache.isUndefined
                                 THEN [cache EXCEPT !.built = Append(@, key)]
                                 ELSE [cache EXCEPT !.map = SetKey(cache.map, key, tree),
                                                    !.built = Append(@, key)]]

\* Faulty variant of getTree: the cache is written but never read.
getTreeAlwaysBuilds(dict, level, cache) ==
    LET key == cacheKey(localeString(dict), level)
        nameSet == GetKey(dict, level)
    IN  IF IsUndefined(nameSet) \/ Len(nameSet.names) = 0
        THEN [tree |-> Null, cache |-> cache]
        ELSE LET tree == KDTree(nameSet.colors, Len(nameSet.names))
             IN  [tree |-> tree,
                  cache |-> IF cache.isUndefined
                            THEN [cache EXCEPT !.built = Append(@, key)]
                            ELSE [cache EXCEPT !.map = SetKey(cache.map, key, tree),
                                               !.built = Append(@, key)]]

\* Faulty variant of getTree: a built tree replaces the whole cache.
getTreeEvicts(dict, level, cache) ==
    LET key == cacheKey(localeString(dict), level)
        cached == IF cache.isUndefined THEN undefined ELSE GetKey(cache.map, key)
        nameSet == GetKey(dict, level)
    IN  IF ~IsUndefined(cached) THEN [tree |-> cached, cache |-> cache]
        ELSE IF IsUndefined(nameSet) \/ Len(nameSet.names) = 0
             THEN [tree |-> Null, cache |-> cache]
             ELSE LET tree == KDTree(nameSet.colors, Len(nameSet.names))
                  IN  [tree |-> tree,
                       cache |-> IF cache.isUndefined
                                 THEN [cache EXCEPT !.built = Append(@, key)]
                                 ELSE [cache EXCEPT !.map = SetKey(NoTrees, key, tree),
                                                    !.built = Append(@, key)]]

\* Faulty variant of getTree: a cache hit returns no tree.
getTreeHitIsNull(dict, level, cache) ==
    LET key == cacheKey(localeString(dict), level)
        cached == IF cache.isUndefined THEN undefined ELSE GetKey(cache.map, key)
        nameSet == GetKey(dict, level)
    IN  IF ~IsUndefined(cached) THEN [tree |-> Null, cache |-> cache]
        ELSE IF IsUndefined(nameSet) \/ Len(nameSet.names) = 0
             THEN [tree |-> Null, cache |-> cache]
             ELSE LET tree == KDTree(nameSet.colors, Len(nameSet.names))
                  IN  [tree |-> tree,
                       cache |-> IF cache.isUndefined
                                 THEN [cache EXCEPT !.built = Append(@, key)]
                                 ELSE [cache EXCEPT !.map = SetKey(cache.map, key, tree),
                                                    !.built = Append(@, key)]]

\* function getTree(dict, level, cache): the tree (Null for none) and the
\* cache as the call leaves it.
getTree(dict, level, cache) ==
    LET key == cacheKey(localeString(dict), level)
        cached == IF cache.isUndefined THEN undefined ELSE GetKey(cache.map, key)
        nameSet == GetKey(dict, level)
    IN  IF ~IsUndefined(cached) THEN [tree |-> cached, cache |-> cache]
        ELSE IF IsUndefined(nameSet) \/ Len(nameSet.names) = 0
             THEN [tree |-> Null, cache |-> cache]
             ELSE LET tree == KDTree(nameSet.colors, Len(nameSet.names))
                  IN  [tree |-> tree,
                       cache |-> IF cache.isUndefined
                                 THEN [cache EXCEPT !.built = Append(@, key)]
                                 ELSE [cache EXCEPT !.map = SetKey(cache.map, key, tree),
                                                    !.built = Append(@, key)]]

\* function makeColorFromSet(set, index)
makeColorFromSet(set, index) ==
    [mode |-> "oklab",
     l |-> set.colors[index * 3 + 1],
     a |-> set.colors[index * 3 + 2],
     b |-> set.colors[index * 3 + 3]]

\* Faulty variant of nameLevel: the first tier with a result wins.
nameLevelFirstWins(dict, level, query, options, st) ==
    LET got == getTree(dict, level, st.cache)
        result == nearest(got.tree, query)
    IN  IF got.tree.isNull \/ result.index < 0 \/ ~st.best.isNull
        THEN [best |-> st.best, cache |-> got.cache]
        ELSE [best |-> [isNull |-> FALSE,
                        name |-> dict[level].names[result.index + 1],
                        color |-> makeColorFromSet(dict[level], result.index),
                        distance |-> result.distance,
                        source |-> dict.source,
                        level |-> level],
              cache |-> got.cache]

\* Faulty variant of nameLevel: a distance equal to the threshold is rejected.
nameLevelStrictThreshold(dict, level, query, options, st) ==
    LET got == getTree(dict, level, st.cache)
        result == nearest(got.tree, query)
    IN  IF got.tree.isNull \/ result.index < 0
        THEN [best |-> st.best, cache |-> got.cache]
        ELSE IF "threshold" \in DOMAIN options /\ result.distance >= options.threshold
        THEN [best |-> st.best, cache |-> got.cache]
        ELSE IF st.best.isNull \/ result.distance < st.best.distance
        THEN [best |-> [isNull |-> FALSE,
                        name |-> dict[level].names[result.index + 1],
                        color |-> makeColorFromSet(dict[level], result.index),
                        distance |-> result.distance,
                        source |-> dict.source,
                        level |-> level],
              cache |-> got.cache]
        ELSE [best |-> st.best, cache |-> got.cache]

\* Faulty variant of nameLevel: with a threshold, a tier within the
\* threshold replaces the running best whatever its distance.
nameLevelThresholdLastWins(dict, level, query, options, st) ==
    LET got == getTree(dict, level, st.cache)
        result == nearest(got.tree, query)
    IN  IF got.tree.isNull \/ result.index < 0
        THEN [best |-> st.best, cache |-> got.cache]
        ELSE IF "threshold" \in DOMAIN options /\ result.distance > options.threshold
        THEN [best |-> st.best, cache |-> got.cache]
        ELSE IF st.best.isNull \/ "threshold" \in DOMAIN options
                \/ result.distance < st.best.distance
        THEN [best |-> [isNull |-> FALSE,
                        name |-> dict[level].names[result.index + 1],
                        color |-> makeColorFromSet(dict[level], result.index),
                        distance |-> result.distance,
                        source |-> dict.source,
                        level |-> level],
              cache |-> got.cache]
        ELSE [best |-> st.best, cache |-> got.cache]

\* Faulty variant of nameLevel: a later tier at an equal distance replaces
\* the running best (<= for <).
nameLevelLaterWinsTies(dict, level, query, options, st) ==
    LET got == getTree(dict, level, st.cache)
        result == nearest(got.tree, query)
    IN  IF got.tree.isNull \/ result.index < 0
        THEN [best |-> st.best, cache |-> got.cache]
        ELSE IF "threshold" \in DOMAIN options /\ result.distance > options.threshold
        THEN [best |-> st.best, cache |-> got.cache]
        ELSE IF st.best.isNull \/ result.distance <= st.best.distance
        THEN [best |-> [isNull |-> FALSE,
                        name |-> dict[level].names[result.index + 1],
                        color |-> makeColorFromSet(dict[level], result.index),
                        distance |-> result.distance,
                        source |-> dict.source,
                        level |-> level],
              cache |-> got.cache]
        ELSE [best |-> st.best, cache |-> got.cache]

\* One iteration of the loop of nameColor over the levels; st = [best, cache]
\* is the running best match (Null for null) and the cache.  When the tree
\* came from the cache and dict has no such tier, nameSet is undefined and
\* reading nameSet.names throws a TypeError.
nameLevel(dict, level, query, options, st) ==
    LET got == getTree(dict, level, st.cache)
        nameSet == GetKey(dict, level)
        result == nearest(got.tree, query)
    IN  IF got.tree.isNull \/ result.index < 0
        THEN [best |-> st.best, cache |-> got.cache]
        ELSE IF "threshold" \in DOMAIN options /\ result.distance > options.threshold
        THEN [best |-> st.best, cache |-> got.cache]
        ELSE IF st.best.isNull \/ result.distance < st.best.distance
        THEN IF IsUndefined(nameSet)
             THEN [best |-> Thrown, cache |-> got.cache]
             ELSE [best |-> [isNull |-> FALSE,
                             name |-> nameSet.names[result.index + 1],
                             color |-> makeColorFromSet(nameSet, result.index),
                             distance |-> result.distance,
                             source |-> GetKey(dict, "source"),
                             level |-> level],
                   cache |-> got.cache]
        ELSE [best |-> st.best, cache |-> got.cache]

\* for (const level of getLevels(options?.level)) { ... }, from the i-th level
\* on; a throw ends the loop.
RECURSIVE nameLoop(_, _, _, _, _, _)
nameLoop(levels, i, dict, query, options, st) ==
    IF i > Len(levels) \/ IsThrown(st.best) THEN st
    ELSE nameLoop(levels, i + 1, dict, query, options,
                  nameLevel(dict, levels[i], query, options, st))

\* function nameColor(color, locale, options): the value returned (Thrown
\* when the call throws), the shared cache as the call leaves it, and the
\* keys for which it ran `new KDTree`.
nameColor(color, locale, options) ==
    LET dict == resolveDict(locale)
        cache == resolveTreeCache(locale)
    IN  IF IsUndefined(dict) THEN [result |-> Null, trees |-> trees, built |-> <<>>]
        ELSE LET st == nameLoop(getLevels(options), 1, dict, toOklabQuery(color), options,
                                [best |-> Null, cache |-> cache])
             IN  [result |-> st.best,
                  trees |-> IF st.cache.isUndefined THEN trees ELSE st.cache.map,
                  built |-> st.cache.built]

\* function getLocale(locale)
getLocale(locale) == GetKey(dictionaries, locale)

\* Faulty variant of sortCandidates: the candidates stay in tier order.
sortCandidatesOmitted(candidates) == candidates

\* candidates.sort((a, b) => a.distance - b.distance), stable
sortCandidates(candidates) == sortResults(candidates)

\* array.slice(0, end); a negative end counts from the end of the array
slice0(array, end) ==
    LET last == IF end < 0 THEN Len(array) + end ELSE end
    IN  SubSeq(array, 1, IF last < 0 THEN 0 ELSE IF last < Len(array) THEN last ELSE Len(array))

\* The candidates pushed for the results of one tier.
pushCandidates(dict, level, nameSet, results) ==
    [i \in 1..Len(results) |->
        [name |-> nameSet.names[results[i].index + 1],
         color |-> makeColorFromSet(nameSet, results[i].index),
         distance |-> results[i].distance,
         source |-> GetKey(dict, "source"),
         level |-> level]]

\* The rest of an iteration of nearestColors once tree.nearestN returned
\* results (or threw: TypeError); st already holds the cache getTree left.
\* nameSet.names throws when the tree came from the cache and dict has no
\* such tier.
pushLevel(dict, level, nameSet, results, st) ==
    IF results = TypeError \/ (Len(results) > 0 /\ IsUndefined(nameSet))
    THEN [st EXCEPT !.thrown = TRUE]
    ELSE [st EXCEPT !.candidates = @ \o pushCandidates(dict, level, nameSet, results)]

\* The rest of an iteration of nearestColors once getTree returned got.
searchLevel(dict, level, query, cnt, st, got) ==
    IF got.tree.isNull
    THEN [st EXCEPT !.cache = got.cache]
    ELSE pushLevel(dict, level, GetKey(dict, level), nearestN(got.tree, query, cnt),
                   [st EXCEPT !.cache = got.cache])

\* One iteration of the loop of nearestColors over LEVELS;
\* st = [candidates, cache, thrown].
nearestLevel(dict, level, query, cnt, st) ==
    searchLevel(dict, level, query, cnt, st, getTree(dict, level, st.cache))

\* for (const level of LEVELS) { ... }, from the i-th level on
RECURSIVE nearestLoop(_, _, _, _, _)
nearestLoop(i, dict, query, cnt, st) ==
    IF i > Len(LEVELS) \/ st.thrown THEN st
    ELSE nearestLoop(i + 1, dict, query, cnt,
                     nearestLevel(dict, LEVELS[i], query, cnt, st))

\* function nearestColors(color, locale, count): the list returned, whether
\* the call threw instead, the shared cache as the call leaves it, and the
\* keys for which it ran `new KDTree`.
nearestColors(color, locale, cnt) ==
    LET dict == resolveDict(locale)
        cache == resolveTreeCache(locale)
    IN  IF IsUndefined(dict)
        THEN [result |-> <<>>, thrown |-> FALSE, trees |-> trees, built |-> <<>>]
        ELSE LET st == nearestLoop(1, dict, toOklabQuery(color), cnt,
                                   [candidates |-> <<>>, cache |-> cache, thrown |-> FALSE])
             IN  [result |-> IF st.thrown THEN <<>>
                             ELSE slice0(sortCandidates(st.candidates), cnt),
                  thrown |-> st.thrown,
                  trees |-> IF st.cache.isUndefined THEN trees ELSE st.cache.map,
                  built |-> st.cache.built]

\* String.prototype.toLowerCase on the names the model uses: the upper-case
\* letters of a name are replaced by their lower-case letters.
toLowerCase(str) ==
    CASE str = "Crimson" -> "crimson"
      [] str = "CRIMSON" -> "crimson"
      [] str = "RED" -> "red"
      [] str = "Red" -> "red"
      [] str = "Teal" -> "teal"
      [] str = "AI" -> "ai"
      [] OTHER -> str

\* Faulty variant of findIndex: names are compared as they are stored.
RECURSIVE findIndexCaseSensitive(_, _, _)
findIndexCaseSensitive(names, i, nameLower) ==
    IF i >= Len(names) THEN -1
    ELSE IF names[i + 1] = nameLower THEN i
    ELSE findIndexCaseSensitive(names, i + 1, nameLower)

\* names.findIndex((n) => n.toLowerCase() === nameLower), scanning from i
RECURSIVE findIndex(_, _, _)
findIndex(names, i, nameLower) ==
    IF i >= Len(names) THEN -1
    ELSE IF toLowerCase(names[i + 1]) = nameLower THEN i
    ELSE findIndex(names, i + 1, nameLower)

\* The loop of lookupColor over LEVELS, from the i-th level on.
RECURSIVE lookupLoop(_, _, _)
lookupLoop(i, dict, nameLower) ==
    IF i > Len(LEVELS) THEN undefined
    ELSE LET nameSet == GetKey(dict, LEVELS[i])
             idx == findIndex(nameSet.names, 0, nameLower)
         IN  IF IsUndefined(nameSet) THEN lookupLoop(i + 1, dict, nameLower)
             ELSE IF idx >= 0 THEN makeColorFromSet(nameSet, idx)
             ELSE lookupLoop(i + 1, dict, nameLower)

\* function lookupColor(name, locale)
lookupColor(name, locale) ==
    LET dict == resolveDict(locale)
    IN  IF IsUndefined(dict) THEN undefined
        ELSE lookupLoop(1, dict, toLowerCase(name))

\* The entries listColorNames pushes for one tier.
listLevel(dict, level) ==
    LET nameSet == GetKey(dict, level)
    IN  IF IsUndefined(nameSet) THEN <<>>
        ELSE [i \in 1..Len(nameSet.names) |->
                [name |-> nameSet.names[i],
                 color |-> makeColorFromSet(nameSet, i - 1),
                 distance |-> 0,
                 source |-> GetKey(dict, "source"),
                 level |-> level]]

\* Faulty variant of listColorNames: the tiers are listed last to first.
listColorNamesReversed(locale) ==
    LET dict == resolveDict(locale)
    IN  IF IsUndefined(dict) THEN <<>>
        ELSE listLevel(dict, LEVELS[3]) \o listLevel(dict, LEVELS[2])
                \o listLevel(dict, LEVELS[1])

\* function listColorNames(locale)
listColorNames(locale) ==
    LET dict == resolveDict(locale)
    IN  IF IsUndefined(dict) THEN <<>>
        ELSE listLevel(dict, LEVELS[1]) \o listLevel(dict, LEVELS[2])
                \o listLevel(dict, LEVELS[3])

\* Faulty variant of translateMatch: sourceColor and targetColor are swapped.
translateMatchSwapped(sourceColor, match) ==
    IF match.result.isNull \/ IsThrown(match.result)
    THEN match
    ELSE [result |-> [isNull |-> FALSE,
                      name |-> match.result.name,
                      sourceColor |-> match.result.color,
                      targetColor |-> sourceColor,
                      distance |-> match.result.distance],
          trees |-> match.trees,
          built |-> match.built]

\* The rest of translateColor once nameColor returned match.
translateMatch(sourceColor, match) ==
    IF match.result.isNull \/ IsThrown(match.result)
    THEN match
    ELSE [result |-> [isNull |-> FALSE,
                      name |-> match.result.name,
                      sourceColor |-> sourceColor,
                      targetColor |-> match.result.color,
                      distance |-> match.result.distance],
          trees |-> match.trees,
          built |-> match.built]

\* Faulty variant of translateSource: the target is named at level basic.
translateSourceBasic(sourceColor, to) ==
    IF IsUndefined(sourceColor)
    THEN [result |-> Null, trees |-> trees, built |-> <<>>]
    ELSE translateMatch(sourceColor, nameColor(sourceColor, to, [level |-> "basic"]))

\* The rest of translateColor once lookupColor returned sourceColor.
translateSource(sourceColor, to) ==
    IF IsUndefined(sourceColor)
    THEN [result |-> Null, trees |-> trees, built |-> <<>>]
    ELSE translateMatch(sourceColor, nameColor(sourceColor, to, NoOptions))

\* function translateColor(name, from, to): the value returned (Null for
\* null, Thrown when nameColor throws), the shared cache as the call leaves
\* it, and the keys for which it ran `new KDTree`.
translateColor(name, from, to) == translateSource(lookupColor(name, from), to)

(***************************************************************************)
(* SpecKD: a KDTree built from a drawn point set answers a drawn query.    *)
(***************************************************************************)

\* Coordinates the point sets and the queries are drawn from.
Palette ==
    { <<0, 0, 0>>, <<2, 0, 0>>, <<1, 2, 0>>, <<1, 1, 1>>, <<0, 2, 2>> }

Queries == Palette \cup { <<1, 0, 0>>, <<2, 2, 1>> }

PointSeqs == UNION { [1..m -> Palette] : m \in 0..MaxPoints }

\* The flat Float32Array [l0, a0, b0, l1, a1, b1, ...] of a sequence of points.
Flat(ps) == [j \in 1..(3 * Len(ps)) |-> ps[((j - 1) \div 3) + 1][((j - 1) % 3) + 1]]

InitKD ==
    /\ dictionaries = NoDictionaries
    /\ trees = NoTrees
    /\ \E ps \in PointSeqs :
          /\ points = Flat(ps)
          /\ count = Len(ps)
          /\ root = KDTree(Flat(ps), Len(ps))
    /\ call \in [op : {"kd"}, query : Queries, n : 0..MaxN]
    /\ out = NoOut
    /\ held = NoHeld

\* tree.nearest(call.query)
KDNearest ==
    /\ call.op = "kd"
    /\ out' = [op |-> "nearest", query |-> call.query,
               result |-> nearest(root, call.query)]
    /\ UNCHANGED <<dictionaries, trees, points, count, root, call, held>>

\* tree.nearestN(call.query, call.n)
KDNearestN ==
    /\ call.op = "kd"
    /\ out' = [op |-> "nearestN", query |-> call.query, n |-> call.n,
               result |-> nearestN(root, call.query, call.n)]
    /\ UNCHANGED <<dictionaries, trees, points, count, root, call, held>>

NextKD == KDNearest \/ KDNearestN

SpecKD == InitKD /\ [][NextKD]_vars

(***************************************************************************)
(* Inputs of the registry specifications: colour name sets, the            *)
(* dictionaries handed to useLocale, query colours and options.            *)
(***************************************************************************)

EnBasic ==
    [names |-> <<"black", "white", "red">>,
     colors |-> <<0, 0, 0,  2, 0, 0,  1, 2, 1>>]
EnBasicAlt ==
    [names |-> <<"dark", "light">>,
     colors |-> <<0, 1, 0,  2, 1, 0>>]
EnExtended ==
    [names |-> <<"teal", "Crimson", "aqua", "cyan", "red">>,
     colors |-> <<1, 0, 1,  1, 2, 0,  2, 0, 2,  2, 0, 2,  0, 2, 2>>]
Traditional ==
    [names |-> <<"sakura", "ai">>,
     colors |-> <<2, 1, 1,  0, 0, 2>>]
JaBasic ==
    [names |-> <<"kuro", "aka">>,
     colors |-> <<0, 0, 0,  1, 2, 1>>]
EmptySet == [names |-> <<>>, colors |-> <<>>]

EnCss == [locale |-> "en", source |-> "css", basic |-> EnBasic]
EnSurvey == [locale |-> "en", source |-> "survey", basic |-> EnBasicAlt, extended |-> EnExtended]
EnCurated == [locale |-> "en", source |-> "curated", extended |-> EmptySet, traditional |-> Traditional]
JaJis == [locale |-> "ja", source |-> "jis", basic |-> JaBasic]
JaWairo == [locale |-> "ja", source |-> "wairo", traditional |-> Traditional]

Dicts == { EnCss, EnSurvey, EnCurated, JaJis, JaWairo }

\* Dictionaries whose locale is the name of a member that `dictionaries`
\* inherits from Object.prototype, or the string "undefined".
ConstructorDict == [locale |-> "constructor", source |-> "x11", basic |-> JaBasic]
ToStringDict == [locale |-> "toString", source |-> "nbs", basic |-> EnBasicAlt,
                 traditional |-> Traditional]
UndefinedDict == [locale |-> "undefined", source |-> "xkcd", basic |-> EnBasic]

\* Every dictionary registered in SpecProto supplies at least one tier.
ProtoDicts == { ConstructorDict, ToStringDict, UndefinedDict, EnCss }

\* The dictionary objects callers hold when a run starts, each known by the
\* value it was created with.
Held == [d \in Dicts \cup ProtoDicts |-> d]

\* Locale identifiers used in queries; "fr" is never registered.
LocaleIds == { "en", "ja", "fr" }

StringRef(l) == [kind |-> "string", id |-> l]
DictRef(d) == [kind |-> "dict", dict |-> d]

\* Thresholds, in the fixed-point unit of distances.
Thresholds == { 0, DistScale \div 2, DistScale, 2 * DistScale }

OptionSets(levels, thresholds) ==
    {NoOptions}
    \cup { [level |-> lv] : lv \in levels }
    \cup { [threshold |-> t] : t \in thresholds }
    \cup { [level |-> lv, threshold |-> t] : lv \in levels, t \in thresholds }

Levels == { LEVELS[i] : i \in 1..3 }

OklabColor(q) == [mode |-> "oklab", l |-> q[1], a |-> q[2], b |-> q[3]]

(***************************************************************************)
(* Spec: the registry over its life.  Any dictionary of Dicts may be       *)
(* registered at any time, interleaved with nameColor and nearestColors    *)
(* queries by locale string or by inline dictionary.                       *)
(***************************************************************************)

SpecColors == { OklabColor(<<1, 0, 1>>) }
SpecLocales == { StringRef(l) : l \in LocaleIds } \cup { DictRef(EnSurvey) }
SpecOptions == { NoOptions, [level |-> "basic"], [level |-> "extended"],
                 [level |-> "basic", threshold |-> DistScale] }
SpecCounts == { 2 }

Init ==
    /\ dictionaries = NoDictionaries
    /\ trees = NoTrees
    /\ points = <<>>
    /\ count = 0
    /\ root = Null
    /\ call = NoCall
    /\ out = NoOut
    /\ held = Held

\* useLocale(dict), for the object a caller holds as held[dict].  out
\* keeps the argument, whether `existing` was found, and the keys for which
\* trees.delete returned true.
UseLocale(dict) ==
    /\ dictionaries' = useLocaleDictionaries(dictionaries, held[dict])
    /\ trees' = useLocaleTrees(dictionaries, trees, held[dict])
    /\ held' = useLocaleHeld(held, dictionaries, dict)
    /\ out' = [op |-> "useLocale", dict |-> held[dict],
               existing |-> held[dict].locale \in DOMAIN dictionaries,
               deleted |-> DOMAIN trees \ DOMAIN useLocaleTrees(dictionaries, trees, held[dict])]
    /\ UNCHANGED <<points, count, root, call>>

\* nameColor(color, locale, options)
NameColor(color, locale, options) ==
    LET r == nameColor(color, locale, options)
    IN  /\ trees' = r.trees
        /\ out' = [op |-> "nameColor", color |-> color, locale |-> locale,
                   options |-> options, result |-> r.result, built |-> r.built]
        /\ UNCHANGED <<dictionaries, points, count, root, call, held>>

\* nearestColors(color, locale, cnt)
NearestColors(color, locale, cnt) ==
    LET r == nearestColors(color, locale, cnt)
    IN  /\ trees' = r.trees
        /\ out' = [op |-> "nearestColors", color |-> color, locale |-> locale,
                   count |-> cnt, result |-> r.result, thrown |-> r.thrown,
                   built |-> r.built]
        /\ UNCHANGED <<dictionaries, points, count, root, call, held>>

Next ==
    \/ \E dict \in Dicts : UseLocale(dict)
    \/ \E color \in SpecColors, locale \in SpecLocales, options \in SpecOptions :
          NameColor(color, locale, options)
    \/ \E color \in SpecColors, locale \in SpecLocales, cnt \in SpecCounts :
          NearestColors(color, locale, cnt)

Spec == Init /\ [][Next]_vars

(***************************************************************************)
(* SpecName: one naming call, drawn with the registry it runs against.     *)
(* The registry is the one left by registering up to MaxRegistrations      *)
(* dictionaries of Dicts in some order; the call may be repeated.          *)
(***************************************************************************)

RECURSIVE RegistryAfter(_, _)
RegistryAfter(ds, i) ==
    IF i = 0 THEN NoDictionaries
    ELSE useLocaleDictionaries(RegistryAfter(ds, i - 1), ds[i])

Registrations == UNION { [1..m -> Dicts] : m \in 0..MaxRegistrations }

NameColors == { OklabColor(q) : q \in Queries } \cup { [mode |-> "oklab", l |-> 2] }
NameLocales == { StringRef(l) : l \in LocaleIds } \cup { DictRef(EnSurvey) }
NameOptions == OptionSets(Levels, Thresholds)

InitName ==
    /\ \E ds \in Registrations : dictionaries = RegistryAfter(ds, Len(ds))
    /\ trees = NoTrees
    /\ points = <<>>
    /\ count = 0
    /\ root = Null
    /\ call \in [op : {"nameColor"}, color : NameColors, locale : NameLocales,
                 options : NameOptions]
    /\ out = NoOut
    /\ held = Held

\* nameColor(call.color, call.locale, call.options)
NameCall ==
    /\ call.op = "nameColor"
    /\ NameColor(call.color, call.locale, call.options)

NextName == NameCall

SpecName == InitName /\ [][NextName]_vars

(***************************************************************************)
(* SpecQuery: one query other than nameColor, drawn with the registry it   *)
(* runs against (as in SpecName); the call may be repeated.                *)
(***************************************************************************)

\* Names handed to lookupColor and translateColor; "mauve" is in no set.
LookupNames ==
    { "red", "RED", "Red", "crimson", "Crimson", "CRIMSON", "teal", "Teal",
      "cyan", "aqua", "sakura", "AI", "kuro", "aka", "dark", "mauve" }

InitQuery ==
    /\ \E ds \in Registrations : dictionaries = RegistryAfter(ds, Len(ds))
    /\ trees = NoTrees
    /\ points = <<>>
    /\ count = 0
    /\ root = Null
    /\ \/ call \in [op : {"nearestColors"}, color : NameColors, locale : NameLocales,
                      count : (-1)..MaxN]
       \/ call \in [op : {"lookupColor"}, name : LookupNames, locale : NameLocales]
       \/ call \in [op : {"listColorNames"}, locale : NameLocales]
       \/ call \in [op : {"translateColor"}, name : LookupNames, from : NameLocales,
                      to : NameLocales]
       \/ call \in [op : {"getLocale"}, locale : LocaleIds]
    /\ out = NoOut
    /\ held = Held

\* lookupColor(name, locale)
LookupColor(name, locale) ==
    /\ out' = [op |-> "lookupColor", name |-> name, locale |-> locale,
               result |-> lookupColor(name, locale)]
    /\ UNCHANGED <<dictionaries, trees, points, count, root, call, held>>

\* listColorNames(locale)
ListColorNames(locale) ==
    /\ out' = [op |-> "listColorNames", locale |-> locale,
               result |-> listColorNames(locale)]
    /\ UNCHANGED <<dictionaries, trees, points, count, root, call, held>>

\* translateColor(name, from, to)
TranslateColor(name, from, to) ==
    LET r == translateColor(name, from, to)
    IN  /\ trees' = r.trees
        /\ out' = [op |-> "translateColor", name |-> name, from |-> from, to |-> to,
                   result |-> r.result, built |-> r.built]
        /\ UNCHANGED <<dictionaries, points, count, root, call, held>>

\* getLocale(locale)
GetLocale(locale) ==
    /\ out' = [op |-> "getLocale", locale |-> locale, result |-> getLocale(locale)]
    /\ UNCHANGED <<dictionaries, trees, points, count, root, call, held>>

NearestCall ==
    /\ call.op = "nearestColors"
    /\ NearestColors(call.color, call.locale, call.count)

LookupCall ==
    /\ call.op = "lookupColor"
    /\ LookupColor(call.name, call.locale)

ListCall ==
    /\ call.op = "listColorNames"
    /\ ListColorNames(call.locale)

TranslateCall ==
    /\ call.op = "translateColor"
    /\ TranslateColor(call.name, call.from, call.to)

GetLocaleCall ==
    /\ call.op = "getLocale"
    /\ GetLocale(call.locale)

NextQuery == NearestCall \/ LookupCall \/ ListCall \/ TranslateCall \/ GetLocaleCall

SpecQuery == InitQuery /\ [][NextQuery]_vars

(***************************************************************************)
(* SpecProto: the registry over its life when locale identifiers are also  *)
(* names of members that `dictionaries` inherits from Object.prototype,    *)
(* or the string "undefined".                                              *)
(***************************************************************************)

\* "fr" is never registered.
ProtoIds == { "constructor", "toString", "undefined", "en", "fr" }
ProtoLocales == { StringRef(l) : l \in ProtoIds }
ProtoOptions == { NoOptions, [level |-> "basic"] }

NextProto ==
    \/ \E dict \in ProtoDicts : UseLocale(dict)
    \/ \E locale \in ProtoLocales, options \in ProtoOptions :
          NameColor(OklabColor(<<1, 0, 1>>), locale, options)
    \/ \E locale \in ProtoLocales : NearestColors(OklabColor(<<1, 0, 1>>), locale, 2)
    \/ \E locale \in ProtoLocales : LookupColor("red", locale)
    \/ \E locale \in ProtoLocales : ListColorNames(locale)
    \/ \E l \in ProtoIds : GetLocale(l)

SpecProto == Init /\ [][NextProto]_vars

(***************************************************************************)
(* SpecSession: a session of callers that hold dictionary objects,         *)
(* register them in any order and issue all five queries, by locale string *)
(* or with a held object given inline, between the registrations.          *)
(***************************************************************************)

SessionDicts == { EnCss, EnSurvey, EnCurated, JaJis }
SessionInline == { EnCss }
SessionLocales == { StringRef(l) : l \in LocaleIds }
SessionColor == OklabColor(<<1, 0, 1>>)
SessionOptions == { NoOptions, [level |-> "basic"] }
SessionCounts == { 0, 2 }
SessionNames == { "red" }

NextSession ==
    \/ \E dict \in SessionDicts : UseLocale(dict)
    \/ \E locale \in SessionLocales, options \in SessionOptions :
          NameColor(SessionColor, locale, options)
    \/ \E d \in SessionInline, options \in SessionOptions :
          NameColor(SessionColor, DictRef(held[d]), options)
    \/ \E locale \in SessionLocales, cnt \in SessionCounts :
          NearestColors(SessionColor, locale, cnt)
    \/ \E name \in SessionNames, locale \in SessionLocales : LookupColor(name, locale)
    \/ \E locale \in SessionLocales : ListColorNames(locale)
    \/ \E name \in SessionNames, from \in SessionLocales, to \in SessionLocales :
          TranslateColor(name, from, to)

SpecSession == Init /\ [][NextSession]_vars

(***************************************************************************)
(* Reference definitions for the k-d tree properties: an O(n) scan over    *)
(* the constructor's input.                                                *)
(***************************************************************************)

Indices == 0..(count - 1)

\* The coordinates of stored point i.
PointAt(i) == <<points[i * 3 + 1], points[i * 3 + 2], points[i * 3 + 3]>>

\* Squared distance from q to stored point i.
SqTo(q, i) == sqDist(q, PointAt(i))

\* The smallest squared distance from q to a stored point (count >= 1).
MinSq(q) == CHOOSE d \in { SqTo(q, i) : i \in Indices } :
                \A i \in Indices : d <= SqTo(q, i)

\* The indices a linear scan selects as the k closest: point i is selected
\* when fewer than k points come before it in the order (distance, index).
ScanBefore(q, j, i) == SqTo(q, j) < SqTo(q, i) \/ (SqTo(q, j) = SqTo(q, i) /\ j < i)
ScanClosest(q, k) ==
    { i \in Indices : Cardinality({ j \in Indices : ScanBefore(q, j, i) }) < k }

Min2(a, b) == IF a <= b THEN a ELSE b

ResultIndices(rs) == { rs[i].index : i \in 1..Len(rs) }

\* C4: on a tree of n >= 1 points, nearest(q) returns the minimum Euclidean
\* distance from q to any stored point and the index of a stored point at
\* that distance, as an O(n) scan finds them.
C4_NearestMatchesScan ==
    (out.op = "nearest" /\ count >= 1) =>
        /\ out.result.index \in Indices
        /\ SqTo(out.query, out.result.index) = MinSq(out.query)
        /\ out.result.distance = MathSqrt(MinSq(out.query))

\* C4 witness: a tree of four points answered with a point that is not the
\* root, at a positive distance.
C4_Witness ==
    /\ out.op = "nearest"
    /\ count = 4
    /\ out.result.index # root.index
    /\ out.result.distance > 0

\* C5 as stated: the index set of nearestN(q, k) is identical to the index
\* set of the k closest points selected by a linear scan, ties included.
C5_SameIndexSetAsScan ==
    (out.op = "nearestN" /\ out.n >= 1) =>
        ResultIndices(out.result) = ScanClosest(out.query, out.n)

\* C5 amended: nearestN(q, k) returns min(k, n) distinct stored indices that
\* are k closest points (no point left out is strictly closer than a point
\* returned); the set is identical to the linear scan's whenever no point
\* left out by the scan is at the same distance as a point it selected.
C5_KClosestUpToTies ==
    (out.op = "nearestN" /\ out.n >= 1) =>
        LET R == ResultIndices(out.result)
            S == ScanClosest(out.query, out.n)
        IN  /\ R \subseteq Indices
            /\ Cardinality(R) = Min2(out.n, count)
            /\ \A i \in R : \A j \in Indices \ R : SqTo(out.query, i) <= SqTo(out.query, j)
            /\ (\A i \in S : \A j \in Indices \ S : SqTo(out.query, i) # SqTo(out.query, j))
                  => R = S

\* C5 witness: a query with k smaller than the number of points and no tie
\* at the boundary, answered with the scan's set.
C5_Witness ==
    /\ out.op = "nearestN"
    /\ out.n = 2
    /\ count = 4
    /\ \A i \in ScanClosest(out.query, 2) : \A j \in Indices \ ScanClosest(out.query, 2) :
          SqTo(out.query, i) < SqTo(out.query, j)
    /\ ResultIndices(out.result) = ScanClosest(out.query, 2)

\* C6: nearestN(q, k) with k >= 1 on a tree of n points returns exactly
\* min(k, n) results with pairwise distinct indices in non-decreasing order
\* of distance (all n points when k exceeds n).
C6_CountDistinctSorted ==
    (out.op = "nearestN" /\ out.n >= 1) =>
        /\ Len(out.result) = Min2(out.n, count)
        /\ \A i, j \in 1..Len(out.result) :
              i < j => /\ out.result[i].index # out.result[j].index
                       /\ out.result[i].distance <= out.result[j].distance
        /\ (out.n > count => ResultIndices(out.result) = Indices)

\* C6 witness: k exceeds the number of points and all of them come back.
C6_Witness ==
    /\ out.op = "nearestN"
    /\ count = 2
    /\ out.n = 3
    /\ Len(out.result) = 2
    /\ out.result[1].distance < out.result[2].distance

\* C7 as stated: a query equal to the coordinates of stored point i returns
\* index i with distance 0, for every stored point i.
C7_ExactMatchReturnsThatIndex ==
    out.op = "nearest" =>
        \A i \in Indices :
            PointAt(i) = out.query => (out.result.index = i /\ out.result.distance = 0)

\* C7 amended: a query equal to the coordinates of stored point i returns
\* distance 0 and the index of a stored point with those coordinates; that
\* index is i when no other stored point has the coordinates of point i.
C7_ExactMatchUpToDuplicates ==
    out.op = "nearest" =>
        \A i \in Indices :
            PointAt(i) = out.query =>
                /\ out.result.distance = 0
                /\ out.result.index \in Indices
                /\ PointAt(out.result.index) = out.query
                /\ ((\A j \in Indices : PointAt(j) = PointAt(i) => j = i)
                       => out.result.index = i)

\* C7 witness: the query is a stored point that lies in the far branch of
\* the root and is found there.
C7_Witness ==
    /\ out.op = "nearest"
    /\ count = 3
    /\ PointAt(out.result.index) = out.query
    /\ out.result.index # root.index
    /\ out.query[1] = root.point[1]
    /\ ~root.right.isNull
    /\ out.result.index = root.right.index

\* C17: a KDTree built from zero points has no root; nearest(q) returns
\* index -1 with distance positive infinity and nearestN(q, k) with k >= 1
\* returns an empty list, without raising.
C17_EmptyTreeAnswersNone ==
    count = 0 =>
        /\ root.isNull
        /\ out.op = "nearest" => out.result = [index |-> -1, distance |-> Infinity]
        /\ (out.op = "nearestN" /\ out.n >= 1) => out.result = <<>>

\* C17 witness: nearest on the tree of zero points has answered.
C17_Witness ==
    /\ count = 0
    /\ points = <<>>
    /\ out.op = "nearest"
    /\ out.result.index = -1

\* C17 witness for nearestN: three neighbours asked of the empty tree.
C17_WitnessNearestN ==
    /\ count = 0
    /\ out.op = "nearestN"
    /\ out.n = 3
    /\ out.result = <<>>

\* The indices stored in the subtree of a node, in left-node-right order.
RECURSIVE SubtreeIndices(_)
SubtreeIndices(node) ==
    IF node.isNull THEN <<>>
    ELSE SubtreeIndices(node.left) \o <<node.index>> \o SubtreeIndices(node.right)

\* The number of nodes of a subtree.
SubtreeSize(node) == Len(SubtreeIndices(node))

\* The nodes of a subtree, each with its depth in the whole tree.
RECURSIVE SubtreeNodes(_, _)
SubtreeNodes(node, depth) ==
    IF node.isNull THEN {}
    ELSE {[node |-> node, depth |-> depth]}
         \cup SubtreeNodes(node.left, depth + 1)
         \cup SubtreeNodes(node.right, depth + 1)

SeqRange(s) == { s[i] : i \in 1..Len(s) }

\* C21: after construction from n points every index 0..n-1 is in exactly
\* one node, with the coordinates of that index; a node at depth d splits on
\* axis d mod 3; the points of its left subtree are <= it on that axis and
\* those of its right subtree >= it; and a subtree of m nodes has
\* floor(m/2) nodes on the left and m - floor(m/2) - 1 on the right.
C21_BalancedMedianSplitTree ==
    /\ Len(SubtreeIndices(root)) = count
    /\ SeqRange(SubtreeIndices(root)) = Indices
    /\ \A e \in SubtreeNodes(root, 0) :
          LET node == e.node
              m == SubtreeSize(node)
          IN  /\ node.index \in Indices
              /\ node.point = PointAt(node.index)
              /\ node.axis = e.depth % 3
              /\ \A i \in SeqRange(SubtreeIndices(node.left)) :
                    PointAt(i)[node.axis + 1] <= node.point[node.axis + 1]
              /\ \A i \in SeqRange(SubtreeIndices(node.right)) :
                    PointAt(i)[node.axis + 1] >= node.point[node.axis + 1]
              /\ SubtreeSize(node.left) = m \div 2
              /\ SubtreeSize(node.right) = m - (m \div 2) - 1

\* C21 witness: a tree of four points with a node at depth 2 (axis 2), a
\* root whose left subtree holds two nodes and whose right subtree holds one,
\* and a point in the left subtree equal to the root on the root's axis.
C21_Witness ==
    /\ count = 4
    /\ ~root.isNull
    /\ SubtreeSize(root.left) = 2
    /\ SubtreeSize(root.right) = 1
    /\ ~root.left.left.isNull
    /\ root.left.left.axis = 2
    /\ root.left.point[1] = root.point[1]
    /\ out.op = "nearest"

\* The traversal of nearestSearch with the far-branch test removed: node,
\* then near branch, then far branch, strict-improvement update.
RECURSIVE nearestTraversal(_, _, _)
nearestTraversal(node, query, best) ==
    IF node.isNull THEN best
    ELSE LET dist == sqDist(query, node.point)
             b1 == IF dist < best.dist THEN [dist |-> dist, index |-> node.index] ELSE best
             diff == query[node.axis + 1] - node.point[node.axis + 1]
             near == IF diff <= 0 THEN node.left ELSE node.right
             far == IF diff <= 0 THEN node.right ELSE node.left
         IN  nearestTraversal(far, query, nearestTraversal(near, query, b1))

\* The traversal of nearestNSearch with the far-branch test removed.
RECURSIVE nearestNTraversal(_, _, _, _)
nearestNTraversal(node, query, n, heap) ==
    IF node.isNull THEN heap
    ELSE LET dist == sqDist(query, node.point)
             h1 == IF Len(heap) < n
                   THEN heapUp(Append(heap, [index |-> node.index, dist |-> dist]), Len(heap))
                   ELSE IF dist < heap[1].dist
                        THEN heapDown([heap EXCEPT ![1] = [index |-> node.index, dist |-> dist]],
                                      0, Len(heap))
                        ELSE heap
             diff == query[node.axis + 1] - node.point[node.axis + 1]
             near == IF diff <= 0 THEN node.left ELSE node.right
             far == IF diff <= 0 THEN node.right ELSE node.left
         IN  nearestNTraversal(far, query, n, nearestNTraversal(near, query, n, h1))

\* What nearest and nearestN return when every branch is traversed.
UnprunedNearest(tree, query) ==
    LET best == nearestTraversal(tree, query, [dist |-> Infinity, index |-> -1])
    IN  [index |-> best.index, distance |-> MathSqrt(best.dist)]

UnprunedNearestN(tree, query, n) ==
    IF n <= 0 /\ ~tree.isNull THEN TypeError
    ELSE LET heap == nearestNTraversal(tree, query, n, <<>>)
         IN  sortResults([i \in 1..Len(heap) |->
                            [index |-> heap[i].index, distance |-> MathSqrt(heap[i].dist)]])

\* At the root: the query's offset from the splitting plane and the two branches.
RootDiff(q) == q[root.axis + 1] - root.point[root.axis + 1]
RootNear(q) == IF RootDiff(q) <= 0 THEN root.left ELSE root.right
RootFar(q) == IF RootDiff(q) <= 0 THEN root.right ELSE root.left

\* C22: branch-and-bound pruning never changes the answer: nearest and
\* nearestN return exactly the indices and distances of the same depth-first
\* traversal (node, near branch, far branch, strict-improvement update) run
\* with the far-branch test removed.
C22_PruningKeepsTheAnswer ==
    /\ out.op = "nearest" => out.result = UnprunedNearest(root, out.query)
    /\ out.op = "nearestN" => out.result = UnprunedNearestN(root, out.query, out.n)

\* C22 witness: nearest skipped the non-empty far branch of the root, whose
\* plane is no closer than the best found in the root and its near branch.
C22_Witness ==
    /\ out.op = "nearest"
    /\ ~root.isNull
    /\ ~RootFar(out.query).isNull
    /\ ~RootNear(out.query).isNull
    /\ LET b2 == nearestSearch(RootNear(out.query), out.query,
                               nearestSearch([root EXCEPT !.left = Null, !.right = Null],
                                             out.query, [dist |-> Infinity, index |-> -1]))
       IN  RootDiff(out.query) * RootDiff(out.query) >= b2.dist
    /\ out.result = UnprunedNearest(root, out.query)

\* C22 witness for nearestN: with a full heap of two, the far branch of the
\* root was skipped.
C22_WitnessNearestN ==
    /\ out.op = "nearestN"
    /\ out.n = 2
    /\ count = 4
    /\ ~RootFar(out.query).isNull
    /\ LET h2 == nearestNSearch(RootNear(out.query), out.query, 2,
                                nearestNSearch([root EXCEPT !.left = Null, !.right = Null],
                                               out.query, 2, <<>>))
       IN  Len(h2) = 2 /\ RootDiff(out.query) * RootDiff(out.query) >= h2[1].dist
    /\ out.result = UnprunedNearestN(root, out.query, 2)

(***************************************************************************)
(* Reference definitions for the registry and naming properties.           *)
(***************************************************************************)

\* The step just taken is useLocale(out'.dict).
IsUseLocaleStep == out'.op = "useLocale"

\* The three cache keys of a locale, written out.
KeysOfLocale(l) == { l \o ":basic", l \o ":extended", l \o ":traditional" }

\* Every cached tree is the tree of the non-empty name set that dicts stores
\* under the key's locale and tier.
CacheMatches(dicts, cache) ==
    \A key \in DOMAIN cache :
        \E l \in DOMAIN dicts : \E lv \in Levels :
            /\ key = l \o ":" \o lv
            /\ lv \in DOMAIN dicts[l]
            /\ Len(dicts[l][lv].names) > 0
            /\ cache[key] = KDTree(dicts[l][lv].colors, Len(dicts[l][lv].names))

\* The levels a call with these options searches, written out.
RangeOf(options) ==
    IF "level" \notin DOMAIN options THEN {"basic", "extended", "traditional"}
    ELSE IF options.level = "basic" THEN {"basic"}
    ELSE IF options.level = "extended" THEN {"basic", "extended"}
    ELSE {"basic", "extended", "traditional"}

\* The tiers of dict in the range that hold at least one name.
SearchedTiers(dict, options) ==
    { lv \in RangeOf(options) : lv \in DOMAIN dict /\ Len(dict[lv].names) > 0 }

\* Squared distance from q to entry i (0-based) of a name set.
SetSq(set, i, q) ==
    sqDist(q, <<set.colors[i * 3 + 1], set.colors[i * 3 + 2], set.colors[i * 3 + 3]>>)

\* All squared distances from q to the entries of the given tiers of dict.
AllSq(dict, tiers, q) ==
    UNION { { SetSq(dict[lv], i, q) : i \in 0..(Len(dict[lv].names) - 1) } : lv \in tiers }

SetMin(S) == CHOOSE d \in S : \A e \in S : d <= e

\* The fixed-point distance of the nearest entry of one tier.
TierNearest(dict, lv, q) == MathSqrt(SetMin(AllSq(dict, {lv}, q)))

\* The query tuple of the call recorded in out.
OutQuery == <<getOrZero(out.color, "l"), getOrZero(out.color, "a"), getOrZero(out.color, "b")>>

\* The call recorded in out is nameColor by locale string on a registered locale.
OutNamesRegistered ==
    /\ out.op = "nameColor"
    /\ out.locale.kind = "string"
    /\ out.locale.id \in DOMAIN dictionaries

\* C1: useLocale on a registered locale leaves every tier that is present
\* as it is, fills every absent tier the incoming dictionary supplies with
\* the incoming set, and adds nothing else; the first registration stores
\* the dictionary as given.  So each tier holds the set of the first
\* registration that supplied it.
C1_MergeFillsAbsentTiersOnly ==
    [][IsUseLocaleStep =>
        LET d == out'.dict
            l == d.locale
        IN  IF l \in DOMAIN dictionaries
            THEN \A lv \in Levels :
                    /\ lv \in DOMAIN dictionaries[l] =>
                          /\ lv \in DOMAIN dictionaries'[l]
                          /\ dictionaries'[l][lv] = dictionaries[l][lv]
                    /\ (lv \notin DOMAIN dictionaries[l] /\ lv \in DOMAIN d) =>
                          /\ lv \in DOMAIN dictionaries'[l]
                          /\ dictionaries'[l][lv] = d[lv]
                    /\ (lv \notin DOMAIN dictionaries[l] /\ lv \notin DOMAIN d) =>
                          lv \notin DOMAIN dictionaries'[l]
            ELSE dictionaries'[l] = d
    ]_vars

\* C1 witness: stored {basic = EnBasic}, incoming {basic = EnBasicAlt,
\* extended = EnExtended} gave {basic = EnBasic, extended = EnExtended}.
C1_Witness ==
    /\ out.op = "useLocale"
    /\ out.dict = EnSurvey
    /\ out.existing
    /\ dictionaries["en"].basic = EnBasic
    /\ dictionaries["en"].extended = EnExtended

\* C2: useLocale on a registered locale L leaves the cache as it was minus
\* exactly the keys (L, basic), (L, extended), (L, traditional): no index of
\* L remains and every other entry is untouched.
C2_InvalidatesExactlyTheLocale ==
    [][(IsUseLocaleStep /\ out'.dict.locale \in DOMAIN dictionaries) =>
        LET K == KeysOfLocale(out'.dict.locale)
        IN  /\ DOMAIN trees' = DOMAIN trees \ K
            /\ \A key \in DOMAIN trees' : trees'[key] = trees[key]
    ]_vars

\* C2 witness: a re-registration that added a tier dropped cached indexes
\* of its locale and kept a cached index of another locale.
C2_Witness ==
    /\ out.op = "useLocale"
    /\ out.existing
    /\ out.dict = EnSurvey
    /\ out.deleted = {"en:basic"}
    /\ dictionaries["en"].extended = EnExtended
    /\ DOMAIN trees = {"ja:basic"}

\* C3: in every state, and inside useLocale once the tiers are merged and no
\* key is deleted yet, every cached index (L, T) is the index of the
\* non-empty set the registry stores for L and T; a nameColor by locale
\* string answers as it would with no cache at all.
C3_CacheMatchesRegistry ==
    /\ [](/\ CacheMatches(dictionaries, trees)
          /\ OutNamesRegistered =>
                out.result =
                    nameLoop(getLevels(out.options), 1, dictionaries[out.locale.id],
                             OutQuery, out.options,
                             [best |-> Null,
                              cache |-> [isUndefined |-> TRUE, map |-> NoTrees,
                                         built |-> <<>>]]).best)
    /\ [][CacheMatches(dictionaries', trees)]_vars

\* C3 witness: a merge added a tier to a locale and a later query by locale
\* string answered from the added tier while other indexes were cached.
C3_Witness ==
    /\ OutNamesRegistered
    /\ out.locale.id = "en"
    /\ ~out.result.isNull
    /\ out.result.level = "extended"
    /\ dictionaries["en"].basic = EnBasic
    /\ DOMAIN trees = {"en:basic", "en:extended", "ja:basic"}

\* C8: nameColor without a threshold returns null exactly when the range
\* holds no non-empty tier; otherwise an entry at the smallest distance over
\* all points of all non-empty tiers of the range, whose name, colour and
\* level are those of one index of one tier, with the Euclidean distance to
\* that colour and the dictionary's source.
C8_GloballyNearestEntry ==
    (OutNamesRegistered /\ "threshold" \notin DOMAIN out.options) =>
        LET dict == dictionaries[out.locale.id]
            tiers == SearchedTiers(dict, out.options)
            r == out.result
        IN  IF tiers = {} THEN r.isNull
            ELSE /\ ~r.isNull
                 /\ r.level \in tiers
                 /\ r.source = dict.source
                 /\ r.distance = MathSqrt(SetMin(AllSq(dict, tiers, OutQuery)))
                 /\ \E i \in 0..(Len(dict[r.level].names) - 1) :
                       /\ r.name = dict[r.level].names[i + 1]
                       /\ r.color = [mode |-> "oklab",
                                     l |-> dict[r.level].colors[i * 3 + 1],
                                     a |-> dict[r.level].colors[i * 3 + 2],
                                     b |-> dict[r.level].colors[i * 3 + 3]]
                       /\ r.distance = MathSqrt(SetSq(dict[r.level], i, OutQuery))

\* C8 witness: no level given, three non-empty tiers, and the answer comes
\* from the extended tier because it is strictly closer than the basic one.
C8_Witness ==
    /\ OutNamesRegistered
    /\ out.options = NoOptions
    /\ SearchedTiers(dictionaries[out.locale.id], NoOptions) = {"basic", "extended", "traditional"}
    /\ out.result.level = "extended"
    /\ out.result.distance < TierNearest(dictionaries[out.locale.id], "basic", OutQuery)
    /\ out.result.distance > 0

\* C9: with level basic a result is of level basic; with level extended it
\* is basic or extended; with level traditional or none it is of any tier.
C9_LevelBoundsTheResult ==
    (out.op = "nameColor" /\ ~out.result.isNull) =>
        /\ out.result.level \in {"basic", "extended", "traditional"}
        /\ ("level" \in DOMAIN out.options /\ out.options.level = "basic")
              => out.result.level = "basic"
        /\ ("level" \in DOMAIN out.options /\ out.options.level = "extended")
              => out.result.level \in {"basic", "extended"}

\* C9 witness: level extended kept the basic answer although the traditional
\* tier holds a strictly closer entry.
C9_Witness ==
    /\ OutNamesRegistered
    /\ "level" \in DOMAIN out.options
    /\ out.options.level = "extended"
    /\ "threshold" \notin DOMAIN out.options
    /\ "traditional" \in DOMAIN dictionaries[out.locale.id]
    /\ ~out.result.isNull
    /\ TierNearest(dictionaries[out.locale.id], "traditional", OutQuery) < out.result.distance

\* C9 witness of the last part: with no level the answer is traditional.
C9_WitnessAnyTier ==
    /\ OutNamesRegistered
    /\ out.options = NoOptions
    /\ ~out.result.isNull
    /\ out.result.level = "traditional"

\* C10: on a registered locale, nameColor with threshold t returns null if
\* and only if the nearest distance of every searched non-empty tier
\* exceeds t; a distance equal to t is accepted.
C10_NullIffAllExceedThreshold ==
    (OutNamesRegistered /\ "threshold" \in DOMAIN out.options) =>
        LET dict == dictionaries[out.locale.id]
            tiers == SearchedTiers(dict, out.options)
        IN  out.result.isNull <=>
                \A lv \in tiers : TierNearest(dict, lv, OutQuery) > out.options.threshold

\* C10 witness: the nearest entry is at a distance exactly equal to the
\* threshold and is returned.
C10_Witness ==
    /\ OutNamesRegistered
    /\ "threshold" \in DOMAIN out.options
    /\ ~out.result.isNull
    /\ out.result.distance = out.options.threshold
    /\ out.result.distance > 0

\* C10 witness of the consequence: a threshold below the true nearest
\* distance gives null where tiers were searched.
C10_WitnessNull ==
    /\ OutNamesRegistered
    /\ "threshold" \in DOMAIN out.options
    /\ out.result.isNull
    /\ SearchedTiers(dictionaries[out.locale.id], out.options) # {}

(***************************************************************************)
(* Reference definitions for the other queries.                            *)
(***************************************************************************)

\* The call recorded in out resolves its locale to a dictionary: a locale
\* string stored by useLocale, or an inline dictionary.
OutResolves ==
    \/ out.locale.kind = "dict"
    \/ /\ out.locale.kind = "string"
       /\ out.locale.id \in DOMAIN dictionaries
       /\ IsStored(dictionaries[out.locale.id])

\* The dictionary a locale reference stands for.
DictOf(ref) == IF ref.kind = "string" THEN dictionaries[ref.id] ELSE ref.dict

\* Every entry of dict as <<tier number, 0-based index>>, tiers numbered
\* 1 = basic, 2 = extended, 3 = traditional.
TierName(t) == IF t = 1 THEN "basic" ELSE IF t = 2 THEN "extended" ELSE "traditional"
Entries(dict) ==
    UNION { { <<t, i>> : i \in 0..(Len(dict[TierName(t)].names) - 1) } :
            t \in { u \in 1..3 : TierName(u) \in DOMAIN dict } }

EntryName(dict, e) == dict[TierName(e[1])].names[e[2] + 1]
EntryPoint(dict, e) ==
    LET cs == dict[TierName(e[1])].colors
    IN  <<cs[e[2] * 3 + 1], cs[e[2] * 3 + 2], cs[e[2] * 3 + 3]>>
EntryColor(dict, e) == OklabColor(EntryPoint(dict, e))
EntryDistance(dict, e, q) == MathSqrt(sqDist(q, EntryPoint(dict, e)))

\* Entry e comes before entry f in tier order, then storage order.
EntryBefore(e, f) == e[1] < f[1] \/ (e[1] = f[1] /\ e[2] < f[2])

\* out.result[k] is an entry of dict, reported with its own name, colour,
\* tier and source and its distance to q.
IsEntryAt(r, dict, q) ==
    \E e \in Entries(dict) :
        /\ r.name = EntryName(dict, e)
        /\ r.color = EntryColor(dict, e)
        /\ r.level = TierName(e[1])
        /\ r.source = dict.source
        /\ r.distance = EntryDistance(dict, e, q)

\* d is the k-th smallest distance from q over all entries of dict, counted
\* with multiplicity.
IsKthSmallest(d, k, dict, q) ==
    /\ Cardinality({ e \in Entries(dict) : EntryDistance(dict, e, q) < d }) < k
    /\ Cardinality({ e \in Entries(dict) : EntryDistance(dict, e, q) <= d }) >= k

\* C11: nearestColors with count >= 1 returns min(count, total number of
\* names of all tiers) entries of the locale in non-decreasing order of
\* distance, and the k-th of them is at the k-th smallest distance from q
\* over the entries of all three tiers.
C11_CountSmallestOverAllTiers ==
    (out.op = "nearestColors" /\ out.count >= 1 /\ OutResolves) =>
        LET dict == DictOf(out.locale)
            rs == out.result
        IN  /\ ~out.thrown
            /\ Len(rs) = Min2(out.count, Cardinality(Entries(dict)))
            /\ \A k \in 1..Len(rs) :
                  /\ IsEntryAt(rs[k], dict, OutQuery)
                  /\ IsKthSmallest(rs[k].distance, k, dict, OutQuery)
                  /\ k > 1 => rs[k - 1].distance <= rs[k].distance

\* C11 witness: three results out of more than three names, the closest
\* from the traditional tier and the others from two further tiers.
C11_Witness ==
    /\ out.op = "nearestColors"
    /\ out.count = 3
    /\ OutResolves
    /\ Cardinality(Entries(DictOf(out.locale))) > 3
    /\ Len(out.result) = 3
    /\ out.result[1].level = "traditional"
    /\ out.result[1].distance < out.result[2].distance
    /\ { out.result[k].level : k \in 1..3 } = {"basic", "extended", "traditional"}

\* C11 witness of the short list: the locale holds fewer names than count.
C11_WitnessFewer ==
    /\ out.op = "nearestColors"
    /\ out.count = 3
    /\ OutResolves
    /\ Len(out.result) = 2

\* The entries of dict whose lower-cased name is the lower-cased argument.
Matches(dict, name) ==
    { e \in Entries(dict) : toLowerCase(EntryName(dict, e)) = toLowerCase(name) }

\* The first entry of a non-empty set of entries in tier, then storage order.
FirstEntry(M) == CHOOSE e \in M : \A f \in M : f = e \/ EntryBefore(e, f)

\* C12: lookupColor returns the coordinate of the first entry, in the order
\* basic, extended, traditional and storage order within a tier, whose
\* lower-cased name equals the lower-cased argument, and undefined when
\* there is none or the locale is unknown.
C12_FirstCaseInsensitiveMatch ==
    out.op = "lookupColor" =>
        IF OutResolves /\ Matches(DictOf(out.locale), out.name) # {}
        THEN out.result = EntryColor(DictOf(out.locale),
                                     FirstEntry(Matches(DictOf(out.locale), out.name)))
        ELSE IsUndefined(out.result)

\* C12 witness: "RED" is stored as "red" in the basic and in the extended
\* tier with different coordinates, and the basic one is returned.
C12_Witness ==
    /\ out.op = "lookupColor"
    /\ out.name = "RED"
    /\ OutResolves
    /\ Cardinality(Matches(DictOf(out.locale), "RED")) = 2
    /\ out.result = OklabColor(<<1, 2, 1>>)

\* C12 witness of the stored upper case: "crimson" finds the entry stored
\* as "Crimson".
C12_WitnessStoredUpperCase ==
    /\ out.op = "lookupColor"
    /\ out.name = "crimson"
    /\ out.result = OklabColor(<<1, 2, 0>>)

\* A locale reference resolves to a dictionary: a locale string stored by
\* useLocale, or an inline dictionary.
Resolves(ref) ==
    \/ ref.kind = "dict"
    \/ /\ ref.kind = "string"
       /\ ref.id \in DOMAIN dictionaries
       /\ IsStored(dictionaries[ref.id])

\* lookupColor(out.name, out.from) finds an entry.
OutSourceFound == Resolves(out.from) /\ Matches(DictOf(out.from), out.name) # {}

\* The coordinates of the entry lookupColor(out.name, out.from) finds.
OutSourcePoint ==
    EntryPoint(DictOf(out.from), FirstEntry(Matches(DictOf(out.from), out.name)))

\* C13: translateColor returns null exactly when the lookup in the source
\* locale finds nothing or the target locale is unknown or holds no name;
\* otherwise sourceColor is the looked-up colour, name and targetColor are
\* those of an entry of the target locale at the smallest distance from
\* sourceColor over all its tiers, and distance is the Euclidean distance
\* between sourceColor and targetColor.
C13_TranslateComposesLookupAndName ==
    out.op = "translateColor" =>
        IF OutSourceFound /\ Resolves(out.to) /\ Entries(DictOf(out.to)) # {}
        THEN LET r == out.result
                 to == DictOf(out.to)
             IN  /\ ~r.isNull
                 /\ ~IsThrown(r)
                 /\ r.sourceColor = OklabColor(OutSourcePoint)
                 /\ IsKthSmallest(r.distance, 1, to, OutSourcePoint)
                 /\ \E e \in Entries(to) :
                       /\ r.name = EntryName(to, e)
                       /\ r.targetColor = EntryColor(to, e)
                       /\ r.distance = EntryDistance(to, e, OutSourcePoint)
        ELSE out.result.isNull

\* C13 witness: a name of the extended tier of one locale is translated to
\* the nearest name of another locale, at a positive distance.
C13_Witness ==
    /\ out.op = "translateColor"
    /\ out.name = "Teal"
    /\ out.from = StringRef("en")
    /\ out.to = StringRef("ja")
    /\ ~out.result.isNull
    /\ out.result.name = "kuro"
    /\ out.result.distance > 0

\* C13 witness of null: the name is found but the target locale is unknown.
C13_WitnessNull ==
    /\ out.op = "translateColor"
    /\ OutSourceFound
    /\ ~Resolves(out.to)
    /\ out.result.isNull

\* The call recorded in out is translateColor(name, A, A) for a name
\* stored in A as given.
OutTranslatesWithinLocale ==
    /\ out.op = "translateColor"
    /\ out.from = out.to
    /\ Resolves(out.from)
    /\ \E e \in Entries(DictOf(out.from)) : EntryName(DictOf(out.from), e) = out.name

\* C14 as stated: translateColor(name, A, A) returns that same name with
\* distance 0 for every name that exists in A.
C14_SameLocaleReturnsSameName ==
    OutTranslatesWithinLocale =>
        /\ ~out.result.isNull
        /\ out.result.name = out.name
        /\ out.result.distance = 0

\* C14 amended: translateColor(name, A, A) for a name that exists in A
\* returns distance 0 and the name of an entry of A stored with the
\* coordinates of the first entry of that name; it is that same name when
\* every entry of A with those coordinates bears it.
C14_SameLocaleUpToSharedCoordinates ==
    OutTranslatesWithinLocale =>
        LET A == DictOf(out.from)
            r == out.result
        IN  /\ ~r.isNull
            /\ r.distance = 0
            /\ r.targetColor = r.sourceColor
            /\ \E e \in Entries(A) :
                  /\ EntryName(A, e) = r.name
                  /\ EntryPoint(A, e) = OutSourcePoint
            /\ (\A e \in Entries(A) :
                    EntryPoint(A, e) = OutSourcePoint => EntryName(A, e) = out.name)
                  => r.name = out.name

\* C14 witness: a name of the traditional tier whose coordinates no other
\* entry shares translates to itself within a locale of three tiers.
C14_Witness ==
    /\ OutTranslatesWithinLocale
    /\ out.name = "sakura"
    /\ out.from = StringRef("en")
    /\ Cardinality(Entries(DictOf(out.from))) > 5
    /\ out.result.name = "sakura"
    /\ out.result.distance = 0

\* The k-th entry (k >= 1) of dict in tier order, then storage order.
KthEntry(dict, k) ==
    CHOOSE e \in Entries(dict) :
        Cardinality({ f \in Entries(dict) : EntryBefore(f, e) }) = k - 1

\* C19: listColorNames returns one entry for every name of every present
\* tier, in the order basic, extended, traditional and storage order within
\* a tier, each with its colour, the dictionary's source, its tier as level
\* and distance 0; it returns [] for an unknown locale.
C19_ListsEveryNameInOrder ==
    out.op = "listColorNames" =>
        IF Resolves(out.locale)
        THEN LET dict == DictOf(out.locale)
             IN  /\ Len(out.result) = Cardinality(Entries(dict))
                 /\ \A k \in 1..Len(out.result) :
                       out.result[k] =
                           [name |-> EntryName(dict, KthEntry(dict, k)),
                            color |-> EntryColor(dict, KthEntry(dict, k)),
                            distance |-> 0,
                            source |-> dict.source,
                            level |-> TierName(KthEntry(dict, k)[1])]
        ELSE out.result = <<>>

\* C19 witness: a locale with three present tiers, one of them empty, lists
\* the names of the other two.
C19_Witness ==
    /\ out.op = "listColorNames"
    /\ out.locale = StringRef("en")
    /\ Resolves(out.locale)
    /\ DOMAIN dictionaries["en"] = {"locale", "source", "basic", "extended", "traditional"}
    /\ dictionaries["en"].extended = EmptySet
    /\ Len(out.result) = 5
    /\ out.result[3].level = "basic"
    /\ out.result[4] = [name |-> "sakura", color |-> OklabColor(<<2, 1, 1>>), distance |-> 0,
                         source |-> dictionaries["en"].source, level |-> "traditional"]

(***************************************************************************)
(* Reference definitions for the cache properties of Spec.                 *)
(***************************************************************************)

\* The step just taken is a nameColor or nearestColors call.
IsQueryStep == out'.op \in {"nameColor", "nearestColors"}

\* The keys for which the step just taken ran `new KDTree`.
BuiltKeys == { out'.built[i] : i \in 1..Len(out'.built) }

\* The tiers the step just taken searches.
StepRange == IF out'.op = "nameColor" THEN RangeOf(out'.options)
             ELSE {"basic", "extended", "traditional"}

\* The keys of the non-empty tiers of locale l that the step just taken
\* searches (none when l is not registered).
StepKeys(l) ==
    IF l \in DOMAIN dictionaries
    THEN { l \o ":" \o lv : lv \in { t \in StepRange : t \in DOMAIN dictionaries[l]
                                                     /\ Len(dictionaries[l][t].names) > 0 } }
    ELSE {}

\* C18: useLocale builds no index.  A query by locale string L builds an
\* index exactly for each non-empty tier it searches that has no cached
\* index, caches it, and reuses every cached index as it is; so a key is
\* built at most once until a useLocale of its locale removes it.  A query
\* at level basic builds at most the basic index.
C18_BuiltLazilyOncePerKey ==
    [][/\ out'.op = "useLocale" =>
              /\ DOMAIN trees' \subseteq DOMAIN trees
              /\ \A key \in DOMAIN trees' : trees'[key] = trees[key]
       /\ (IsQueryStep /\ out'.locale.kind = "string") =>
              /\ BuiltKeys = StepKeys(out'.locale.id) \ DOMAIN trees
              /\ Len(out'.built) = Cardinality(BuiltKeys)
              /\ DOMAIN trees' = DOMAIN trees \cup BuiltKeys
              /\ \A key \in DOMAIN trees : trees'[key] = trees[key]
              /\ (out'.op = "nameColor" /\ "level" \in DOMAIN out'.options
                     /\ out'.options.level = "basic")
                    => BuiltKeys \subseteq { out'.locale.id \o ":basic" }
    ]_vars

\* C18 witness: a query at level basic on a locale with a non-empty
\* extended tier built and cached the basic index only.
C18_Witness ==
    /\ out.op = "nameColor"
    /\ out.locale = StringRef("en")
    /\ out.options = [level |-> "basic"]
    /\ out.built = <<"en:basic">>
    /\ "en" \in DOMAIN dictionaries
    /\ "extended" \in DOMAIN dictionaries["en"]
    /\ dictionaries["en"].extended = EnExtended
    /\ DOMAIN trees = {"en:basic"}

\* C18 witness of reuse: a query answered from cached indexes built none.
C18_WitnessReuse ==
    /\ out.op = "nameColor"
    /\ out.locale = StringRef("en")
    /\ out.options = NoOptions
    /\ out.built = <<>>
    /\ ~out.result.isNull
    /\ DOMAIN trees = {"en:basic", "en:extended", "en:traditional"}

\* The answer recorded in out for an inline dictionary is the one its own
\* tiers give: for nameColor null when no searched tier has an entry within
\* the threshold, else an entry of a searched tier at the smallest distance;
\* for nearestColors the count closest entries of its tiers.
InlineAnswerFromOwnTiers ==
    LET dict == out.locale.dict
        q == OutQuery
    IN  IF out.op = "nameColor"
        THEN LET tiers == SearchedTiers(dict, out.options)
                 within == { lv \in tiers : "threshold" \in DOMAIN out.options
                                             => TierNearest(dict, lv, q) <= out.options.threshold }
             IN  IF within = {} THEN out.result.isNull
                 ELSE /\ ~out.result.isNull
                      /\ out.result.level \in within
                      /\ IsEntryAt(out.result, dict, q)
                      /\ \A lv \in within : out.result.distance <= TierNearest(dict, lv, q)
        ELSE /\ ~out.thrown
             /\ Len(out.result) = Min2(out.count, Cardinality(Entries(dict)))
             /\ \A k \in 1..Len(out.result) :
                   /\ IsEntryAt(out.result[k], dict, q)
                   /\ IsKthSmallest(out.result[k].distance, k, dict, q)

\* C16: a nameColor or nearestColors call given a dictionary value leaves
\* the index cache and the registered dictionaries as they are, and its
\* answer is the one the inline dictionary's own tiers give, also when the
\* cache holds an index under the inline dictionary's locale.
C16_InlineDictionaryBypassesRegistry ==
    /\ []((out.op \in {"nameColor", "nearestColors"} /\ out.locale.kind = "dict")
              => InlineAnswerFromOwnTiers)
    /\ [][(IsQueryStep /\ out'.locale.kind = "dict")
              => (trees' = trees /\ dictionaries' = dictionaries)]_vars

\* C16 witness: the cache holds the basic index of the registered locale en
\* (built from other names) and a query with an inline dictionary of locale
\* en answered from the inline basic tier.
C16_Witness ==
    /\ out.op = "nameColor"
    /\ out.locale = DictRef(EnSurvey)
    /\ out.options = [level |-> "basic"]
    /\ "en:basic" \in DOMAIN trees
    /\ trees["en:basic"] = KDTree(EnBasic.colors, 3)
    /\ out.result.name \in {"dark", "light"}
    /\ out.result.distance = MathSqrt(3)

(***************************************************************************)
(* Reference definitions for the properties of SpecProto.                  *)
(***************************************************************************)

\* Some useLocale call so far registered locale l.  Every dictionary
\* registered in SpecProto supplies a tier, so a registration of l leaves
\* dictionaries[l] other than the untouched inherited member.
Registered(l) ==
    /\ l \in DOMAIN dictionaries
    /\ dictionaries[l] # InheritedMember(l)

\* The step just taken is a query by a locale string that no useLocale call
\* has registered.
IsUnknownLocaleStep ==
    /\ out'.op \in {"nameColor", "nearestColors", "lookupColor", "listColorNames"}
    /\ out'.locale.kind = "string"
    /\ ~Registered(out'.locale.id)

\* C15 as stated, for the unknown locale: a query on a locale that was never
\* registered raises no error, returns the absent value of its function
\* (null, [], undefined, []) and leaves the registered dictionaries and the
\* index cache unchanged.
C15_UnknownLocaleIsAbsentResult ==
    [][IsUnknownLocaleStep =>
          /\ out'.op = "nameColor" => out'.result = Null
          /\ out'.op = "nearestColors" => (~out'.thrown /\ out'.result = <<>>)
          /\ out'.op = "lookupColor" => IsUndefined(out'.result)
          /\ out'.op = "listColorNames" => out'.result = <<>>
          /\ dictionaries' = dictionaries
          /\ trees' = trees
    ]_vars

\* C20 as stated: getLocale(l) returns the dictionary stored for l when a
\* useLocale call registered l and undefined for every l that none has
\* registered; useLocale of a never-registered locale stores the incoming
\* dictionary as a new one.
C20_OnlyRegisteredLocalesAreKnown ==
    /\ [](out.op = "getLocale" =>
              IF Registered(out.locale)
              THEN out.result = dictionaries[out.locale]
              ELSE IsUndefined(out.result))
    /\ [][(out'.op = "useLocale" /\ ~Registered(out'.dict.locale))
              => dictionaries'[out'.dict.locale] = out'.dict]_vars

(***************************************************************************)
(* Properties of nameColor across options and tiers.                       *)
(***************************************************************************)

\* The options without the threshold.
WithoutThreshold(options) == [k \in DOMAIN options \ {"threshold"} |-> options[k]]

\* The call recorded in out is nameColor on a dictionary with a threshold.
OutNamesWithThreshold ==
    /\ out.op = "nameColor"
    /\ OutResolves
    /\ "threshold" \in DOMAIN out.options

\* The searched non-empty tiers of the call recorded in out whose nearest
\* entry is at the smallest distance over all of them.
OutNearestTiers ==
    LET dict == DictOf(out.locale)
        tiers == SearchedTiers(dict, out.options)
    IN  { lv \in tiers :
            \A other \in tiers :
                TierNearest(dict, lv, OutQuery) <= TierNearest(dict, other, OutQuery) }

\* Tier a is coarser than tier b.
Coarser(a, b) ==
    \/ a = "basic" /\ b \in {"extended", "traditional"}
    \/ a = "extended" /\ b = "traditional"

\* C25: a threshold only decides whether nameColor answers, never which
\* entry: when nameColor(q, locale, {level, threshold}) is not null it is
\* the entry nameColor(q, locale, {level}) returns (name, colour, level,
\* distance and source).
C25_ThresholdKeepsTheEntry ==
    (OutNamesWithThreshold /\ ~out.result.isNull) =>
        out.result = nameColor(out.color, out.locale, WithoutThreshold(out.options)).result

\* C25 witness: the threshold discarded the nearest entry of a searched
\* tier and the call still answered, from another tier, at a positive
\* distance.
C25_Witness ==
    /\ OutNamesWithThreshold
    /\ ~out.result.isNull
    /\ out.result.distance > 0
    /\ \E lv \in SearchedTiers(DictOf(out.locale), out.options) :
          /\ lv # out.result.level
          /\ TierNearest(DictOf(out.locale), lv, OutQuery) > out.options.threshold
    /\ out.result = nameColor(out.color, out.locale, WithoutThreshold(out.options)).result

\* C26: when several searched tiers have their nearest entries at the same,
\* smallest distance (within the threshold, if one is given), nameColor
\* returns the entry of the coarsest of them: no coarser searched tier has
\* a nearest entry as close as the one returned.
C26_CoarserTierWinsTies ==
    (out.op = "nameColor" /\ OutResolves /\ ~out.result.isNull) =>
        /\ out.result.level \in OutNearestTiers
        /\ \A lv \in OutNearestTiers : ~Coarser(lv, out.result.level)
        /\ out.result.distance = TierNearest(DictOf(out.locale), out.result.level, OutQuery)

\* C26 witness: basic and extended tie for the nearest entry and the basic
\* entry is returned.
C26_Witness ==
    /\ out.op = "nameColor"
    /\ OutResolves
    /\ ~out.result.isNull
    /\ {"basic", "extended"} \subseteq OutNearestTiers
    /\ out.result.level = "basic"
    /\ out.result.distance > 0

\* C26 witness: extended and traditional tie and the extended entry is
\* returned.
C26_WitnessExtended ==
    /\ out.op = "nameColor"
    /\ OutResolves
    /\ ~out.result.isNull
    /\ OutNearestTiers = {"extended", "traditional"}
    /\ out.result.level = "extended"

(***************************************************************************)
(* Properties of calls with a count of zero or less.                       *)
(***************************************************************************)

\* The call recorded in out is nearestColors with a count of zero or less.
OutCountNotPositive == out.op = "nearestColors" /\ out.count <= 0

\* The locale of the call recorded in out resolves to a dictionary that has
\* a tier with at least one name.
OutHasData ==
    /\ OutResolves
    /\ \E lv \in Levels :
          lv \in DOMAIN DictOf(out.locale) /\ Len(DictOf(out.locale)[lv].names) > 0

\* C30: with a count of zero or less, nearestColors raises when the locale
\* resolves to a dictionary with a non-empty tier and returns [] without
\* raising otherwise (unknown locale, no non-empty tier); nearestN with that
\* count raises on every index the call built or found and returns [] on
\* the tree of zero points; the registered dictionaries never change.
C30_NonPositiveCountRaisesOnData ==
    /\ [](OutCountNotPositive =>
              /\ OutHasData => out.thrown
              /\ ~OutHasData => (~out.thrown /\ out.result = <<>>)
              /\ \A key \in DOMAIN trees :
                    /\ ~trees[key].isNull
                    /\ nearestN(trees[key], OutQuery, out.count) = TypeError
              /\ nearestN(KDTree(<<>>, 0), OutQuery, out.count) = <<>>)
    /\ [][out'.op = "nearestColors" => dictionaries' = dictionaries]_vars

\* C30 witness: a negative count on a registered locale raised, after the
\* index of its first non-empty tier had been built and cached.
C30_Witness ==
    /\ OutCountNotPositive
    /\ out.count = -1
    /\ out.locale.kind = "string"
    /\ OutHasData
    /\ out.thrown
    /\ DOMAIN trees # {}

\* C30 witness: a count of zero on an unknown locale returned [].
C30_WitnessUnknownLocale ==
    /\ OutCountNotPositive
    /\ out.count = 0
    /\ out.locale.kind = "string"
    /\ out.locale.id \notin DOMAIN dictionaries
    /\ ~out.thrown
    /\ out.result = <<>>

(***************************************************************************)
(* Properties of a session (SpecSession).                                  *)
(***************************************************************************)

\* The step just taken is one of the five queries.
IsSessionQueryStep ==
    out'.op \in {"nameColor", "nearestColors", "lookupColor", "listColorNames",
                 "translateColor"}

\* The cache keys of the (locale, tier) pairs the call recorded in o
\* searches: none for lookupColor, listColorNames and inline dictionaries.
SearchedKeys(o) ==
    IF o.op = "nameColor" /\ o.locale.kind = "string"
    THEN { o.locale.id \o ":" \o lv : lv \in RangeOf(o.options) }
    ELSE IF o.op = "nearestColors" /\ o.locale.kind = "string"
    THEN KeysOfLocale(o.locale.id)
    ELSE IF o.op = "translateColor" /\ o.to.kind = "string"
    THEN KeysOfLocale(o.to.id)
    ELSE {}

\* C23: a query step leaves every registered dictionary and every
\* dictionary object of a caller (names and coordinates of each Color Name
\* Set) as it was, leaves every cached index as it was, and adds to the
\* cache only keys of the (locale, tier) pairs it searched.
C23_QueriesOnlyAddSearchedIndexes ==
    [][IsSessionQueryStep =>
          /\ dictionaries' = dictionaries
          /\ held' = held
          /\ \A key \in DOMAIN trees : key \in DOMAIN trees' /\ trees'[key] = trees[key]
          /\ (DOMAIN trees' \ DOMAIN trees) \subseteq SearchedKeys(out')
    ]_vars

\* C23 witness: translateColor built the two indexes of the target locale
\* en while the cache already held the index of ja, which is still there.
C23_Witness ==
    /\ out.op = "translateColor"
    /\ out.to = StringRef("en")
    /\ out.built = <<"en:basic", "en:extended">>
    /\ DOMAIN trees = {"en:basic", "en:extended", "ja:basic"}
    /\ trees["ja:basic"] = KDTree(JaBasic.colors, 2)
    /\ dictionaries["en"].extended = EnExtended

\* The locale reference with a registered locale string replaced by the
\* stored dictionary itself, which is searched without the cache.
Uncached(ref) ==
    IF ref.kind = "string" /\ ref.id \in DOMAIN dictionaries
    THEN DictRef(dictionaries[ref.id])
    ELSE ref

\* What the call recorded in o answers from the registered dictionaries
\* alone, every index built afresh.
UncachedAnswer(o) ==
    IF o.op = "nameColor"
    THEN [result |-> nameColor(o.color, Uncached(o.locale), o.options).result]
    ELSE IF o.op = "nearestColors"
    THEN [result |-> nearestColors(o.color, Uncached(o.locale), o.count).result,
          thrown |-> nearestColors(o.color, Uncached(o.locale), o.count).thrown]
    ELSE IF o.op = "lookupColor"
    THEN [result |-> lookupColor(o.name, Uncached(o.locale))]
    ELSE IF o.op = "listColorNames"
    THEN [result |-> listColorNames(Uncached(o.locale))]
    ELSE [result |-> translateColor(o.name, Uncached(o.from), Uncached(o.to)).result]

\* The arguments and the answer (value returned, error raised) of a call.
CallOf(o) == [k \in DOMAIN o \ {"result", "thrown", "built"} |-> o[k]]
AnswerOf(o) == [k \in DOMAIN o \cap {"result", "thrown"} |-> o[k]]

\* C24: the answer of every query (value or raised error) is the one the
\* registered dictionaries alone determine, whether its indexes were built
\* by this call or found in the cache, and a query step leaves the
\* dictionaries unchanged; so two identical calls with no useLocale between
\* them answer alike, and a call repeated at once answers as before.
C24_RepeatedCallAnswersAlike ==
    [][IsSessionQueryStep =>
          /\ AnswerOf(out') = UncachedAnswer(out')
          /\ dictionaries' = dictionaries
          /\ CallOf(out') = CallOf(out) => AnswerOf(out') = AnswerOf(out)
    ]_vars

\* C24 witness: nameColor answered from indexes found in the cache (it
\* built none) with an entry of the extended tier.
C24_Witness ==
    /\ out.op = "nameColor"
    /\ out.locale = StringRef("en")
    /\ out.built = <<>>
    /\ ~out.result.isNull
    /\ out.result.level = "extended"
    /\ {"en:basic", "en:extended"} \subseteq DOMAIN trees

\* C24 witness of a failing call: nearestColors with count 0 raised on
\* indexes found in the cache.
C24_WitnessRaised ==
    /\ out.op = "nearestColors"
    /\ out.count = 0
    /\ out.thrown
    /\ out.built = <<>>

\* The entries of the answer recorded in out (nameColor: the entry if any).
OutEntries ==
    IF out.op = "nameColor"
    THEN (IF out.result.isNull THEN {} ELSE {out.result})
    ELSE { out.result[k] : k \in 1..Len(out.result) }

\* The call recorded in out is a naming query by the string of a registered locale.
OutListsRegistered ==
    /\ out.op \in {"nameColor", "nearestColors", "listColorNames"}
    /\ out.locale.kind = "string"
    /\ out.locale.id \in DOMAIN dictionaries

EmptyTiers(dicts) ==
    { <<l, lv>> \in (DOMAIN dicts) \X Levels :
        lv \in DOMAIN dicts[l] /\ Len(dicts[l][lv].names) = 0 }

\* C28: a tier stored with zero names has no cached index and no entry in
\* an answer of nameColor or nearestColors for its locale, and every step,
\* useLocale with a non-empty set for that tier included, leaves it stored
\* with zero names.
C28_EmptyTierStaysEmpty ==
    /\ [](\A p \in EmptyTiers(dictionaries) :
              /\ p[1] \o ":" \o p[2] \notin DOMAIN trees
              /\ (OutListsRegistered /\ out.locale.id = p[1])
                    => \A e \in OutEntries : e.level # p[2])
    /\ [][EmptyTiers(dictionaries) \subseteq EmptyTiers(dictionaries')]_vars

\* C28 witness: en holds an empty extended tier and useLocale of the survey
\* dictionary, which supplies five extended names, has just returned.
C28_Witness ==
    /\ out.op = "useLocale"
    /\ out.dict = EnSurvey
    /\ out.existing
    /\ <<"en", "extended">> \in EmptyTiers(dictionaries)
    /\ dictionaries["en"].basic = EnBasicAlt

\* C28 witness: a query over all tiers of that locale answered from the
\* traditional tier, and the cache holds no extended index.
C28_WitnessQuery ==
    /\ out.op = "nameColor"
    /\ out.locale = StringRef("en")
    /\ out.options = NoOptions
    /\ "en" \in DOMAIN dictionaries
    /\ <<"en", "extended">> \in EmptyTiers(dictionaries)
    /\ ~out.result.isNull
    /\ "en:traditional" \in DOMAIN trees

====
